---- MODULE Spec2Model ----
(***************************************************************************)
(* The E2E script for https://cfe.jp/ (the refactored main of the          *)
(* repository with helpers/test-runner, helpers/screenshot): one           *)
(* sequential run per process, with the file system (baselines,            *)
(* screenshots, action cache) and the browser (open pages, their URLs) as  *)
(* state.  The collaborators (Stagehand act/extract/observe, the browser,  *)
(* the file system) answer nondeterministically.                           *)
(***************************************************************************)
EXTENDS Integers, Sequences, FiniteSets, TLC

\* ------------------------------------------------------------ bounds
\* New tabs one act() call may open.
MaxNewTabs == 1
\* Width and height of the (scaled down) viewport screenshot, in pixels.
ImgW == 5
ImgH == 2
\* Frames the recorder may have captured when it is stopped.
MaxFrames == 1
\* Frame number from which no further capture is started.
MaxRecFrames == 4
\* The largest n injectFrames is called with.
MaxInject == 3

\* ------------------------------------------------- program constants
\* VISUAL_DIFF_THRESHOLD = 0.10, kept as the fraction 10 / 100.
ThresholdNum == 10
ThresholdDen == 100
\* The new-tab poll: deadline, poll interval (ms).
POLL_DEADLINE_MS == 5000
POLL_INTERVAL_MS == 300

\* ------------------------------------------------------------- files
\* A file is a sequence: empty when the path does not exist, else its content.
NoFile == <<>>

File(c) == <<c>>

Exists(f) == f # NoFile

Content(f) == f[1]

\* A decodable PNG of w x h pixels whose first k pixels are lit.
Img(w, h, k) ==
  [valid |-> TRUE, width |-> w, height |-> h,
   data |-> [i \in 1..(w * h) |-> IF i <= k THEN 1 ELSE 0]]

\* A file PNG.sync.read cannot decode.
CorruptImg == [valid |-> FALSE, width |-> 0, height |-> 0, data |-> <<>>]

\* Numbers of lit pixels of the renderings of the page considered.
LitLevels == {0, 1}

\* What page.screenshot of the viewport can produce.
ViewportShots == {Img(ImgW, ImgH, k) : k \in LitLevels}

\* What a baseline file left by earlier runs or by a commit can hold: an
\* earlier rendering, one that differs from today's in more pixels, one of
\* another viewport size, an undecodable file.
BaselineFiles ==
  {NoFile} \cup
  {File(i) : i \in ViewportShots \cup
                   {Img(ImgW, ImgH, 3), Img(ImgW + 1, ImgH, 0), CorruptImg}}

\* path.join(dir, `${name}.png`)
PathJoin(dir, name) == [dir |-> dir, name |-> name]

SCREENSHOT_DIR == "screenshots"

BASELINES_DIR == "baselines"

ShotNames ==
  {"01-page-loaded", "02-profile-extracted", "03-books-extracted",
   "04-links-observed", "05a-before-click", "05a-diff", "05b-new-tab",
   "error-crash"}

\* -------------------------------------------------------------- URLs
CFE_URL == <<"h", "t", "t", "p", "s", ":", "/", "/", "c", "f", "e", ".", "j", "p", "/">>

GITHUB_URL ==
  <<"h", "t", "t", "p", "s", ":", "/", "/", "g", "i", "t", "h", "u", "b", ".",
    "c", "o", "m", "/", "u", "z", "u", "l", "l", "a">>

SLIDESHARE_URL ==
  <<"h", "t", "t", "p", "s", ":", "/", "/", "w", "w", "w", ".", "s", "l", "i",
    "d", "e", "s", "h", "a", "r", "e", ".", "n", "e", "t", "/", "j", "u", "n",
    "i", "c", "h", "i", "i", "s", "h", "i", "d", "a">>

BLANK_URL == <<"a", "b", "o", "u", "t", ":", "b", "l", "a", "n", "k">>

GITHUB_COM == <<"g", "i", "t", "h", "u", "b", ".", "c", "o", "m">>

\* The state keeps a URL by a short key; UrlText is its text.
UrlKeys == {"blank", "cfe", "github", "slideshare"}

UrlText(u) ==
  CASE u = "cfe" -> CFE_URL
    [] u = "github" -> GITHUB_URL
    [] u = "slideshare" -> SLIDESHARE_URL
    [] OTHER -> BLANK_URL

\* String.prototype.includes
Includes(s, t) ==
  \E i \in 0..(Len(s) - Len(t)) : SubSeq(s, i + 1, i + Len(t)) = t

\* ------------------------------------------------------------- pages
\* The page setupTestEnv takes from pages()[0]: ctx.page.
OrigPage == 0

NoPage == -1

PageIds == 0..(2 * MaxNewTabs)

\* Where a link of cfe.jp can lead: a new tab's URL.
TabUrls == {"github", "slideshare"}

\* The sequences over S of length at most n.
SeqsUpTo(S, n) == UNION {[1..k -> S] : k \in 0..n}

\* The events of seq s whose op is o.
Count(s, o) == Cardinality({i \in 1..Len(s) : s[i].op = o})

VARIABLES
  pc,           \* position of main()
  results,      \* results: TestResult[]
  exitCode,     \* process.exitCode
  crashed,      \* the catch block of main ran
  baseline,     \* the file baselines/05a-before-click.png
  cache,        \* the directory .cache/cfe-test: [exists, entries]
  shots,        \* the files of screenshots/, by name
  pages,        \* stagehand.context.pages()
  url,          \* page.url() of every page handle
  nextPage,     \* the next fresh page handle
  comparison,   \* const comparison
  pagesBefore,  \* actAndAssert: pagesBefore
  poll,         \* how the new-tab poll loop of actAndAssert went
  pending,      \* tabs the click has triggered that are not open yet
  attempt,      \* let attempt
  attemptNo,    \* which call of actAndAssert is running or ran last
  closeIdx,     \* index of the for loop over extraPages
  log,          \* the collaborator calls and effects of Test 5 and teardown
  baseline0,    \* the baseline file when the run started
  recording,    \* the recorder is capturing
  frames,       \* totalFrames: what recorder.stop() returned
  browserOpen,  \* stagehand is initialised and not closed
  frameIndex,   \* startRecording: let frameIndex
  stopped,      \* startRecording: let stopped
  injecting,    \* startRecording: let injecting
  capPc,        \* where the capture() loop is
  capPath,      \* the frame number in the path of the capture in flight
  injPc,        \* where a call of injectFrames is
  injLeft,      \* captures the call of injectFrames has still to make
  injPath,      \* the frame number in the path of the injected capture in flight
  injBase,      \* frameIndex when injectFrames was called
  frameLog,     \* the frame files written, in order: who wrote which number
  stopPc,       \* where a call of stop() is
  stopResult,   \* what stop() returned
  saveDir,      \* saveBaseline: the directory baselinesDir, [exists, files]
  saveArg,      \* saveBaseline: screenshotPath's file and baselineName
  savePc,       \* where a call of saveBaseline is
  saveRet,      \* what saveBaseline returned
  saveCalls,    \* the calls of saveBaseline made
  recDir,       \* recordings/ as a run finds or leaves it
  script,       \* one script of collaborator outcomes for Test 5
  mono,         \* what Test 5 of e2e-cfe.ts did on the script
  refa,         \* what Test 5 of the refactored main did on the script
  dom,          \* the document of a page the highlight helpers work on
  hlCall,       \* the call of a highlight helper made last
  shotCall,     \* a call of the screenshot helper: its closure and arguments
  shotOut       \* what the call of the screenshot helper did

vars ==
  <<pc, results, exitCode, crashed, baseline, cache, shots, pages, url,
    nextPage, comparison, pagesBefore, poll, pending, attempt, attemptNo,
    closeIdx, log, baseline0, recording, frames, browserOpen, frameIndex,
    stopped, injecting, capPc, capPath, injPc, injLeft, injPath, injBase, frameLog,
    stopPc, stopResult, saveDir, saveArg, savePc, saveRet, saveCalls, recDir,
    script, mono, refa, dom, hlCall, shotCall, shotOut>>

\* The state of one startRecording closure.
recVars ==
  <<frameIndex, stopped, injecting, capPc, capPath, injPc, injLeft, injPath, injBase,
    frameLog, stopPc, stopResult>>

\* A call of saveBaseline taken on its own, and the directory it is given.
saveVars == <<saveDir, saveArg, savePc, saveRet, saveCalls>>

fsVars == <<baseline, cache, shots>>

runVars == <<results, exitCode, crashed>>

\* The state of the pieces that are run on their own.
eqVars == <<script, mono, refa>>

hlVars == <<dom, hlCall>>

shVars == <<shotCall, shotOut>>

sideVars == <<eqVars, hlVars, shVars>>

tearVars ==
  <<baseline0, recording, frames, browserOpen, recVars, saveVars, recDir,
    sideVars>>

browserVars == <<pages, url, nextPage>>

t5Vars ==
  <<comparison, pagesBefore, poll, pending, attempt, attemptNo, closeIdx>>

\* ------------------------------------------------------ initial state
NoComparison ==
  [mismatchRatio |-> [num |-> 0, den |-> 1], diffSaved |-> FALSE,
   skipped |-> FALSE, done |-> FALSE]

NoAttempt == [success |-> FALSE, githubPage |-> NoPage, allPages |-> <<>>]

\* No new page arrives.
Never == -1

NoPoll == [arrival |-> Never, exitAt |-> 0, sawNew |-> FALSE, polls |-> 0]

CacheKey == "Click the GitHub link@https://cfe.jp/"

CacheStates ==
  {[exists |-> FALSE, entries |-> {}], [exists |-> TRUE, entries |-> {}],
   [exists |-> TRUE, entries |-> {CacheKey}]}

Event(o, a) == [op |-> o, arg |-> a]

\* The per-run state before setupTestEnv.
FreshRun ==
  /\ pc = "setup"
  /\ results = <<>>
  /\ exitCode = 0
  /\ crashed = FALSE
  /\ pages = <<>>
  /\ url = [p \in PageIds |-> "blank"]
  /\ nextPage = 0
  /\ comparison = NoComparison
  /\ pagesBefore = 0
  /\ poll = NoPoll
  /\ pending = <<>>
  /\ attempt = NoAttempt
  /\ attemptNo = 0
  /\ closeIdx = 0
  /\ log = <<>>
  /\ recording = FALSE
  /\ frames = 0
  /\ browserOpen = FALSE

\* stop() has not returned a frame count.
NotReturned == -1

\* startRecording(page, framesDir, intervalMs) has returned: capture() has
\* run to its first await, the screenshot of frame 0.
RecorderStarted ==
  /\ frameIndex = 0
  /\ stopped = FALSE
  /\ injecting = FALSE
  /\ capPc = "shooting"
  /\ capPath = 0
  /\ injPc = "idle"
  /\ injLeft = 0
  /\ injPath = 0
  /\ injBase = 0
  /\ frameLog = <<>>
  /\ stopPc = "idle"
  /\ stopResult = NotReturned

\* The checkpoint names a baseline is kept under: the one main uses and
\* another one.
BaselineNames == {"05a-before-click", "01-page-loaded"}

\* No path: saveBaseline has not returned one.
NoPath == PathJoin("", "")

\* A directory of baselines that does not exist.
NoDir == [exists |-> FALSE, files |-> [n \in BaselineNames |-> NoFile]]

\* No call of saveBaseline on its own is under way.
NoSaveCall ==
  /\ saveDir = NoDir
  /\ saveArg = [src |-> NoFile, name |-> "05a-before-click"]
  /\ savePc = "idle"
  /\ saveRet = NoPath
  /\ saveCalls = 0

\* No script of outcomes is being run through Test 5 of the two scripts.
NoScript == [given |-> FALSE]

NotRun == [ran |-> FALSE]

NoScriptRun ==
  /\ script = NoScript
  /\ mono = NotRun
  /\ refa = NotRun

\* A document without highlights: no element with the container id, no
\* element made by the helpers, the viewport where the page put it.
CleanDom == [containers |-> 0, overlays |-> 0, scrolledTo |-> "top"]

NoHighlightCall == [op |-> "none"]

NoHighlight ==
  /\ dom = CleanDom
  /\ hlCall = NoHighlightCall

\* No call of the screenshot helper on its own is under way.
NoShotCall ==
  /\ shotCall = [given |-> FALSE]
  /\ shotOut = [done |-> FALSE]

SideIdle ==
  /\ NoScriptRun
  /\ NoHighlight
  /\ NoShotCall

\* recordings/ is not there, or holds nothing but an empty frames/, or holds
\* what a run that recorded left: test-recording.mp4, or the raw frames when
\* ffmpeg failed.
RecDirStates == {"absent", "empty", "output"}

Init ==
  /\ FreshRun
  /\ RecorderStarted
  /\ NoSaveCall
  /\ recDir \in RecDirStates
  /\ SideIdle
  /\ baseline \in BaselineFiles
  /\ cache \in CacheStates
  /\ shots = [n \in ShotNames |-> NoFile]
  /\ baseline0 = baseline

\* ---------------------------------------------------- shared pieces
TestResult(step, passed, screenshot) ==
  [step |-> step, passed |-> passed, screenshot |-> screenshot]

\* A helper that gives up when the full-page capture throws.
ScreenshotHelper_NoFallback(fullOk, fallbackOk) ==
  [captures |-> <<"fullPage">>, threw |-> ~fullOk, written |-> fullOk]

\* The helper made by createScreenshotHelper, called with a page on which the
\* full-page capture works or not and the viewport capture works or not: the
\* captures it attempts, whether it throws, whether the file is written.
ScreenshotHelper(fullOk, fallbackOk) ==
  [captures |-> IF fullOk THEN <<"fullPage">> ELSE <<"fullPage", "viewport">>,
   threw |-> ~fullOk /\ ~fallbackOk,
   written |-> fullOk \/ fallbackOk]

\* What a screenshot file of page p shows.
Shown(p, u) == File([page |-> p, url |-> u])

\* An error reaches the catch block of main.
Throw == pc' = "catch"

\* A setup that empties baselines/ with the other output directories.
Setup_ClearsBaselines ==
  /\ pc = "setup"
  /\ shots' = [n \in ShotNames |-> NoFile]
  /\ recDir' = "empty"
  /\ baseline' = NoFile
  /\ \E initOk \in BOOLEAN :
       IF initOk
       THEN /\ pages' = <<OrigPage>>
            /\ nextPage' = OrigPage + 1
            /\ browserOpen' = TRUE
            /\ recording' = TRUE
            /\ pc' = "test1"
            /\ UNCHANGED exitCode
       ELSE /\ pc' = "died"
            /\ exitCode' = 1
            /\ UNCHANGED <<pages, nextPage, browserOpen, recording>>
  /\ UNCHANGED <<results, crashed, cache, url, log, baseline0, frames>>
  /\ UNCHANGED recVars
  /\ UNCHANGED saveVars
  /\ UNCHANGED sideVars
  /\ UNCHANGED t5Vars

\* ---------------------------------------------------------- setupTestEnv
\* The output directories are emptied, Stagehand is started, recording starts.
Setup ==
  /\ pc = "setup"
  /\ shots' = [n \in ShotNames |-> NoFile]
  /\ recDir' = "empty"
  /\ \E initOk \in BOOLEAN :
       IF initOk
       THEN /\ pages' = <<OrigPage>>
            /\ nextPage' = OrigPage + 1
            /\ browserOpen' = TRUE
            /\ recording' = TRUE
            /\ pc' = "test1"
            /\ UNCHANGED exitCode
       ELSE /\ pc' = "died"
            /\ exitCode' = 1
            /\ UNCHANGED <<pages, nextPage, browserOpen, recording>>
  /\ UNCHANGED <<results, crashed, baseline, cache, url, log, baseline0, frames>>
  /\ UNCHANGED recVars
  /\ UNCHANGED saveVars
  /\ UNCHANGED sideVars
  /\ UNCHANGED t5Vars

\* ------------------------------------------------------------ Tests 1-4
Test1 ==
  /\ pc = "test1"
  /\ \E nav \in {"ok", "gotoThrows", "waitThrows"}, fullOk \in BOOLEAN,
        fallbackOk \in BOOLEAN :
       LET u == IF nav = "gotoThrows" THEN url[OrigPage] ELSE "cfe"
           shot == ScreenshotHelper(fullOk, fallbackOk)
       IN /\ url' = [url EXCEPT ![OrigPage] = u]
          /\ IF nav = "ok" /\ ~shot.threw
             THEN /\ shots' = [shots EXCEPT !["01-page-loaded"] = Shown(OrigPage, u)]
                  /\ results' = Append(results,
                       TestResult("Test 1: Page navigation", TRUE,
                                  PathJoin(SCREENSHOT_DIR, "01-page-loaded")))
                  /\ pc' = "test2"
             ELSE /\ Throw
                  /\ UNCHANGED <<shots, results>>
  /\ UNCHANGED <<exitCode, crashed, baseline, cache, pages, nextPage, log>>
  /\ UNCHANGED tearVars
  /\ UNCHANGED t5Vars

\* A step that asks Stagehand (extract, observe), takes a screenshot and
\* records the verdict; a failed verdict does not stop the pipeline.
VerdictStep(at, next, step, name, verdict, callOk, shot) ==
  /\ pc = at
  /\ IF callOk /\ ~shot.threw
     THEN /\ shots' = [shots EXCEPT ![name] = Shown(OrigPage, url[OrigPage])]
          /\ results' = Append(results,
               TestResult(step, verdict, PathJoin(SCREENSHOT_DIR, name)))
          /\ pc' = next
     ELSE /\ Throw
          /\ UNCHANGED <<shots, results>>
  /\ UNCHANGED <<exitCode, crashed, baseline, cache, log>>
  /\ UNCHANGED tearVars
  /\ UNCHANGED browserVars
  /\ UNCHANGED t5Vars

\* Lengths an extracted string or list can have.
Lengths == {0, 1}

Test2 ==
  \E nameLen \in Lengths, snsLen \in Lengths, callOk \in BOOLEAN,
     fullOk \in BOOLEAN, fallbackOk \in BOOLEAN :
    VerdictStep("test2", "test3", "Test 2: Profile extraction",
                "02-profile-extracted", nameLen > 0 /\ snsLen > 0, callOk,
                ScreenshotHelper(fullOk, fallbackOk))

Test3 ==
  \E books \in Lengths, callOk \in BOOLEAN, fullOk \in BOOLEAN,
     fallbackOk \in BOOLEAN :
    VerdictStep("test3", "test4", "Test 3: Book extraction",
                "03-books-extracted", books > 0, callOk,
                ScreenshotHelper(fullOk, fallbackOk))

Test4 ==
  \E actions \in Lengths, callOk \in BOOLEAN, fullOk \in BOOLEAN,
     fallbackOk \in BOOLEAN :
    VerdictStep("test4", "t5_shot", "Test 4: Link observation",
                "04-links-observed", actions > 0, callOk,
                ScreenshotHelper(fullOk, fallbackOk))

\* ----------------------------------------------------- image comparison
\* pixelmatch(img1.data, img2.data, diff.data, width, height): the pixels
\* that differ, and the diff image that marks them.
DiffPixels(d1, d2, n) == {i \in 1..n : d1[i] # d2[i]}

DiffImage(img1, img2) ==
  LET n == img1.width * img1.height
      px == DiffPixels(img1.data, img2.data, n)
  IN [valid |-> TRUE, width |-> img1.width, height |-> img1.height,
      data |-> [i \in 1..n |-> IF i \in px THEN 1 ELSE 0]]

Ratio(n, d) == [num |-> n, den |-> d]

\* return { mismatchRatio: 0, diffSaved: false, skipped: true }, with a
\* missing baseline counted as a mismatch of 1.
SkippedResult_FullMismatch ==
  [threw |-> FALSE, mismatchRatio |-> Ratio(1, 1), diffSaved |-> FALSE,
   skipped |-> TRUE, diff |-> NoFile]

\* return { mismatchRatio: 0, diffSaved: false, skipped: true }
SkippedResult ==
  [threw |-> FALSE, mismatchRatio |-> Ratio(0, 1), diffSaved |-> FALSE,
   skipped |-> TRUE, diff |-> NoFile]

\* The decode error swallowed and the comparison reported as skipped.
DecodeError_Swallowed ==
  [threw |-> FALSE, mismatchRatio |-> Ratio(0, 1), diffSaved |-> FALSE,
   skipped |-> TRUE, diff |-> NoFile]

\* PNG.sync.read(fs.readFileSync(...)) throws: no result.
DecodeError ==
  [threw |-> TRUE, mismatchRatio |-> Ratio(0, 1), diffSaved |-> FALSE,
   skipped |-> FALSE, diff |-> NoFile]

\* The size-mismatch branch made to write a diff of the current image's size.
SizeMismatchResult_WritesDiff(img1, img2) ==
  [threw |-> FALSE, mismatchRatio |-> Ratio(1, 1), diffSaved |-> TRUE,
   skipped |-> FALSE, diff |-> File(Img(img1.width, img1.height, 0))]

\* return { mismatchRatio: 1, diffSaved: false, skipped: false }
SizeMismatchResult(img1, img2) ==
  [threw |-> FALSE, mismatchRatio |-> Ratio(1, 1), diffSaved |-> FALSE,
   skipped |-> FALSE, diff |-> NoFile]

\* The pixel comparison counting the pixels that are equal.
PixelmatchResult_CountsEqual(img1, img2) ==
  LET n == img1.width * img1.height
      numDiffPixels == n - Cardinality(DiffPixels(img1.data, img2.data, n))
  IN [threw |-> FALSE, mismatchRatio |-> Ratio(numDiffPixels, n),
      diffSaved |-> TRUE, skipped |-> FALSE,
      diff |-> File(DiffImage(img1, img2))]

\* pixelmatch over two images of equal size, the ratio, the diff file.
PixelmatchResult(img1, img2) ==
  LET n == img1.width * img1.height
      numDiffPixels == Cardinality(DiffPixels(img1.data, img2.data, n))
  IN [threw |-> FALSE, mismatchRatio |-> Ratio(numDiffPixels, n),
      diffSaved |-> TRUE, skipped |-> FALSE,
      diff |-> File(DiffImage(img1, img2))]

\* compareWithBaseline(currentPath, baselineName, opts): whether it threw,
\* what it returned, and the file it wrote at opts.diffPath (NoFile: none).
CompareWithBaseline(currentFile, baselineFile) ==
  IF ~Exists(baselineFile)
  THEN SkippedResult
  ELSE IF ~Exists(currentFile) \/ ~Content(currentFile).valid
          \/ ~Content(baselineFile).valid
  THEN DecodeError
  ELSE LET img1 == Content(currentFile)
           img2 == Content(baselineFile)
       IN IF img1.width # img2.width \/ img1.height # img2.height
          THEN SizeMismatchResult(img1, img2)
          ELSE PixelmatchResult(img1, img2)

\* comparison.mismatchRatio > VISUAL_DIFF_THRESHOLD
ExceedsThreshold(r) == r.num * ThresholdDen > ThresholdNum * r.den

\* A missing baseline taken for a broken page.
PageVisuallyBroken_SkippedIsBroken(c) ==
  IF c.skipped THEN TRUE
  ELSE c.mismatchRatio.num * ThresholdDen > ThresholdNum * c.mismatchRatio.den

\* The threshold test written the wrong way round.
PageVisuallyBroken_Inverted(c) ==
  IF c.skipped THEN FALSE
  ELSE c.mismatchRatio.num * ThresholdDen < ThresholdNum * c.mismatchRatio.den

\* let pageVisuallyBroken, as the if/else after the comparison sets it.
PageVisuallyBroken(c) ==
  IF c.skipped THEN FALSE ELSE ExceedsThreshold(c.mismatchRatio)

\* A save that keeps a baseline that is already there.
SaveBaseline_KeepExisting(screenshotFile, oldBaseline) ==
  IF Exists(oldBaseline) THEN oldBaseline ELSE screenshotFile

\* saveBaseline(screenshotPath, baselineName, baselinesDir): the content that
\* fs.copyFileSync leaves at baselinesDir/baselineName.png.
SaveBaseline(screenshotFile, oldBaseline) == screenshotFile

\* saveBaseline with the directory emptied before the copy.
SaveBaselineCall_ReplacesDir(dir, src, name) ==
  IF ~Exists(src)
  THEN [threw |-> TRUE, dir |-> [exists |-> TRUE, files |-> dir.files],
        ret |-> NoPath]
  ELSE [threw |-> FALSE,
        dir |-> [exists |-> TRUE,
                 files |-> [n \in BaselineNames |->
                              IF n = name THEN src ELSE NoFile]],
        ret |-> PathJoin(BASELINES_DIR, name)]

\* saveBaseline(screenshotPath, baselineName, baselinesDir) on the directory
\* dir, src being the file at screenshotPath: mkdirSync when the directory is
\* not there, then copyFileSync, which throws when src does not exist, then
\* return dest.
SaveBaselineCall(dir, src, name) ==
  IF ~Exists(src)
  THEN [threw |-> TRUE, dir |-> [exists |-> TRUE, files |-> dir.files],
        ret |-> NoPath]
  ELSE [threw |-> FALSE,
        dir |-> [exists |-> TRUE,
                 files |-> [dir.files EXCEPT
                              ![name] = SaveBaseline(src, dir.files[name])]],
        ret |-> PathJoin(BASELINES_DIR, name)]

\* --------------------------------------------------- Test 5: visual check
Test5Step == "Test 5: Click GitHub link"

\* await ctx.page.screenshot({ path: comparisonSsPath })
T5Shot ==
  /\ pc = "t5_shot"
  /\ \/ \E img \in ViewportShots :
          /\ shots' = [shots EXCEPT !["05a-before-click"] = File(img)]
          /\ log' = Append(log, Event("shot05a", OrigPage))
          /\ pc' = "t5_check"
     \/ /\ Throw
        /\ UNCHANGED <<shots, log>>
  /\ UNCHANGED <<baseline, cache>>
  /\ UNCHANGED runVars
  /\ UNCHANGED tearVars
  /\ UNCHANGED browserVars
  /\ UNCHANGED t5Vars

\* The artifact of a Test 5 result recorded for visual regression.
DiffArtifact == PathJoin(SCREENSHOT_DIR, "05a-diff")

\* The comparison with the baseline and the branch on pageVisuallyBroken.
T5VisualCheck ==
  /\ pc = "t5_check"
  /\ LET c == CompareWithBaseline(shots["05a-before-click"], baseline)
     IN IF c.threw
        THEN /\ Throw
             /\ UNCHANGED <<shots, comparison, results, log>>
        ELSE /\ shots' = IF c.diffSaved
                         THEN [shots EXCEPT !["05a-diff"] = c.diff]
                         ELSE shots
             /\ comparison' = [mismatchRatio |-> c.mismatchRatio,
                               diffSaved |-> c.diffSaved,
                               skipped |-> c.skipped, done |-> TRUE]
             /\ IF PageVisuallyBroken(c)
                THEN /\ results' = Append(results,
                                          TestResult(Test5Step, FALSE, DiffArtifact))
                     /\ log' = log \o <<Event("compare", 0), Event("push", 0)>>
                     /\ pc' = "teardown"
                ELSE /\ log' = Append(log, Event("compare", 0))
                     /\ pc' = "act"
                     /\ UNCHANGED results
  /\ UNCHANGED <<exitCode, crashed, baseline, cache>>
  /\ UNCHANGED tearVars
  /\ UNCHANGED browserVars
  /\ UNCHANGED <<pagesBefore, poll, pending, attempt, attemptNo, closeIdx>>

\* ------------------------------------------------------- actAndAssert
\* p.url().includes("github.com")
IsGithub(u) == Includes(UrlText(u), GITHUB_COM)

\* allPages.find((p) => p.url().includes("github.com")): the first such page,
\* or NoPage.
FindGithubPage(allPages, urls) ==
  LET hits == {i \in 1..Len(allPages) : IsGithub(urls[allPages[i]])}
  IN IF hits = {} THEN NoPage
     ELSE allPages[CHOOSE i \in hits : \A j \in hits : i <= j]

\* A verdict that trusts what act() returned.
ActAndAssertResult_TrustAct(allPages, urls, ret) ==
  [success |-> ret, githubPage |-> FindGithubPage(allPages, urls),
   allPages |-> allPages]

\* The return value of actAndAssert, from pages() and the URLs at the check;
\* ret is what act() returned.
ActAndAssertResult(allPages, urls, ret) ==
  LET githubPage == FindGithubPage(allPages, urls)
      navigatedInPlace == IsGithub(urls[OrigPage])
  IN [success |-> (githubPage # NoPage) \/ navigatedInPlace,
      githubPage |-> IF githubPage # NoPage THEN githubPage
                     ELSE IF navigatedInPlace THEN OrigPage ELSE NoPage,
      allPages |-> allPages]

\* The browser opens the first k of the tabs the click has triggered.
OpenTabs(k) ==
  /\ pages' = pages \o [i \in 1..k |-> nextPage + i - 1]
  /\ url' = [p \in PageIds |->
               IF p >= nextPage /\ p < nextPage + k
               THEN pending[p - nextPage + 1] ELSE url[p]]
  /\ nextPage' = nextPage + k

\* pagesBefore is read and act("Click the GitHub link") is awaited: the click
\* may navigate the original page, trigger new tabs and write a cache entry,
\* or act() throws.  The log records the invocation either way.
Act ==
  /\ pc = "act"
  /\ \/ \E tabs \in SeqsUpTo(TabUrls, MaxNewTabs),
           nav \in {url[OrigPage]} \cup TabUrls, wr \in BOOLEAN :
          /\ pagesBefore' = Len(pages)
          /\ pending' = tabs
          /\ url' = [url EXCEPT ![OrigPage] = nav]
          /\ cache' = IF wr
                      THEN [exists |-> TRUE, entries |-> cache.entries \cup {CacheKey}]
                      ELSE cache
          /\ attemptNo' = attemptNo + 1
          /\ log' = Append(log, Event("act", attemptNo + 1))
          /\ pc' = "poll"
     \/ /\ Throw
        /\ log' = Append(log, Event("act", attemptNo + 1))
        /\ UNCHANGED <<pagesBefore, pending, url, cache, attemptNo>>
  /\ UNCHANGED <<baseline, shots, pages, nextPage, comparison, poll, attempt, closeIdx>>
  /\ UNCHANGED runVars
  /\ UNCHANGED tearVars

\* When, in ms after act() returned, the first new page can arrive.
ArrivalTimes == {0, 250, 4900, Never}

RECURSIVE PollLoop_NoBreak(_, _)
\* The loop without its break: it sleeps on until the deadline.
PollLoop_NoBreak(now, arrival) ==
  IF now < POLL_DEADLINE_MS
  THEN LET r == PollLoop_NoBreak(now + POLL_INTERVAL_MS, arrival)
       IN [r EXCEPT !.polls = @ + 1]
  ELSE [arrival |-> arrival, exitAt |-> now, sawNew |-> FALSE, polls |-> 0]

RECURSIVE PollLoop(_, _)
\* const deadline = Date.now() + 5000; while (Date.now() < deadline) { if
\* (pages().length > pagesBefore) break; await sleep(300) }, run from time
\* now with the first new page arriving at arrival: when the loop is left,
\* whether it saw the new page, how many times it polled.
PollLoop(now, arrival) ==
  IF now < POLL_DEADLINE_MS
  THEN IF arrival # Never /\ arrival <= now
       THEN [arrival |-> arrival, exitAt |-> now, sawNew |-> TRUE, polls |-> 1]
       ELSE LET r == PollLoop(now + POLL_INTERVAL_MS, arrival)
            IN [r EXCEPT !.polls = @ + 1]
  ELSE [arrival |-> arrival, exitAt |-> now, sawNew |-> FALSE, polls |-> 0]

\* The poll for a new tab: the tabs that have arrived when the loop is left
\* are open.
Poll ==
  /\ pc = "poll"
  /\ \E arrival \in ArrivalTimes :
       LET r == PollLoop(0, arrival)
       IN /\ (pending = <<>>) => (arrival = Never)
          /\ poll' = r
          /\ IF arrival # Never /\ arrival <= r.exitAt
             THEN \E k \in 1..Len(pending) :
                    /\ OpenTabs(k)
                    /\ pending' = SubSeq(pending, k + 1, Len(pending))
             ELSE /\ UNCHANGED pending
                  /\ UNCHANGED browserVars
  /\ pc' = "settle"
  /\ UNCHANGED <<comparison, pagesBefore, attempt, attemptNo, closeIdx, log>>
  /\ UNCHANGED runVars
  /\ UNCHANGED tearVars
  /\ UNCHANGED fsVars

\* Self-heal after the first attempt, whatever its verification said.
SelfHealNeeded_Always(att, n) == n = 1

\* A retry loop: every failed attempt starts another self-heal.
SelfHealNeeded_Retrying(att, n) == ~att.success

\* if (!attempt.success) after the first call of actAndAssert; the result of
\* the retry is not tested for another retry.
SelfHealNeeded(att, n) == n = 1 /\ ~att.success

\* The 1000 ms settle delay, during which more tabs may open, then the URL
\* check; a failure of the first attempt starts self-heal.  ret is what the
\* awaited act() returned, which the script does not keep.
Settle ==
  /\ pc = "settle"
  /\ \E k \in 0..Len(pending) : OpenTabs(k)
  /\ pending' = <<>>
  /\ \E ret \in BOOLEAN : attempt' = ActAndAssertResult(pages', url', ret)
  /\ log' = Append(log, Event("verify", IF attempt'.success THEN 1 ELSE 0))
  /\ poll' = NoPoll
  /\ IF SelfHealNeeded(attempt', attemptNo)
     THEN /\ pc' = "heal_close"
          /\ closeIdx' = 1
     ELSE /\ pc' = "newtab"
          /\ UNCHANGED closeIdx
  /\ UNCHANGED <<comparison, pagesBefore, attemptNo>>
  /\ UNCHANGED runVars
  /\ UNCHANGED tearVars
  /\ UNCHANGED fsVars

\* ------------------------------------------------------------ self-heal
\* attempt.allPages.filter((p) => p !== ctx.page)
ExtraPages(allPages) ==
  LET NotOrig(p) == p # OrigPage
  IN SelectSeq(allPages, NotOrig)

\* The pages with page p closed.
Without(ps, p) ==
  LET Other(q) == q # p
  IN SelectSeq(ps, Other)

\* The loop without its try/catch: a close that throws ends the try block.
HealClose_ThrowPropagates ==
  /\ pc = "heal_close"
  /\ LET extraPages == ExtraPages(attempt.allPages)
     IN IF closeIdx <= Len(extraPages)
        THEN /\ \E closed \in BOOLEAN :
                  /\ pages' = IF closed THEN Without(pages, extraPages[closeIdx])
                              ELSE pages
                  /\ pc' = IF closed THEN "heal_close" ELSE "catch"
             /\ log' = Append(log, Event("close", extraPages[closeIdx]))
             /\ closeIdx' = closeIdx + 1
        ELSE /\ pc' = "heal_cache"
             /\ UNCHANGED <<pages, log, closeIdx>>
  /\ UNCHANGED <<url, nextPage, comparison, pagesBefore, poll, pending, attempt,
                 attemptNo>>
  /\ UNCHANGED runVars
  /\ UNCHANGED tearVars
  /\ UNCHANGED fsVars

\* One turn of  for (const ep of extraPages) { try { await ep.close() } catch {} }
\* and, after the last one, on to the cache.
HealClose ==
  /\ pc = "heal_close"
  /\ LET extraPages == ExtraPages(attempt.allPages)
     IN IF closeIdx <= Len(extraPages)
        THEN /\ \E closed \in BOOLEAN :
                  pages' = IF closed THEN Without(pages, extraPages[closeIdx])
                           ELSE pages
             /\ log' = Append(log, Event("close", extraPages[closeIdx]))
             /\ closeIdx' = closeIdx + 1
             /\ pc' = "heal_close"
        ELSE /\ pc' = "heal_cache"
             /\ UNCHANGED <<pages, log, closeIdx>>
  /\ UNCHANGED <<url, nextPage, comparison, pagesBefore, poll, pending, attempt,
                 attemptNo>>
  /\ UNCHANGED runVars
  /\ UNCHANGED tearVars
  /\ UNCHANGED fsVars

\* The directory removed and not made again.
ClearCache_NoMkdir(c) ==
  IF c.exists THEN [exists |-> FALSE, entries |-> {}] ELSE c

\* if (fs.existsSync(cacheDir)) { fs.rmSync(...); fs.mkdirSync(...) }
ClearCache(c) ==
  IF c.exists THEN [exists |-> TRUE, entries |-> {}] ELSE c

HealCache ==
  /\ pc = "heal_cache"
  /\ cache' = ClearCache(cache)
  /\ log' = IF cache.exists
            THEN log \o <<Event("rm", 0), Event("mkdir", 0)>>
            ELSE log
  /\ pc' = "heal_goto"
  /\ UNCHANGED <<baseline, shots>>
  /\ UNCHANGED runVars
  /\ UNCHANGED tearVars
  /\ UNCHANGED browserVars
  /\ UNCHANGED t5Vars

\* The reload without the wait for network idle.
HealGoto_NoWait ==
  /\ pc = "heal_goto"
  /\ \/ /\ url' = [url EXCEPT ![OrigPage] = "cfe"]
        /\ log' = Append(log, Event("goto", OrigPage))
        /\ pc' = "act"
     \/ /\ Throw
        /\ UNCHANGED <<url, log>>
  /\ UNCHANGED <<pages, nextPage>>
  /\ UNCHANGED runVars
  /\ UNCHANGED tearVars
  /\ UNCHANGED fsVars
  /\ UNCHANGED t5Vars

\* await ctx.page.goto("https://cfe.jp/")
HealGoto ==
  /\ pc = "heal_goto"
  /\ \/ /\ url' = [url EXCEPT ![OrigPage] = "cfe"]
        /\ log' = Append(log, Event("goto", OrigPage))
        /\ pc' = "heal_wait"
     \/ /\ Throw
        /\ UNCHANGED <<url, log>>
  /\ UNCHANGED <<pages, nextPage>>
  /\ UNCHANGED runVars
  /\ UNCHANGED tearVars
  /\ UNCHANGED fsVars
  /\ UNCHANGED t5Vars

\* await ctx.page.waitForLoadState("networkidle"), then the retry
HealWait ==
  /\ pc = "heal_wait"
  /\ \/ /\ log' = Append(log, Event("networkidle", OrigPage))
        /\ pc' = "act"
     \/ /\ Throw
        /\ UNCHANGED log
  /\ UNCHANGED runVars
  /\ UNCHANGED tearVars
  /\ UNCHANGED fsVars
  /\ UNCHANGED browserVars
  /\ UNCHANGED t5Vars

\* ------------------------------------------------ Test 5: the outcome
\* attempt.allPages[attempt.allPages.length - 1]
LastPage(allPages) == allPages[Len(allPages)]

\* The new-tab screenshot taken only for a successful attempt.
NewTabShotNeeded_OnlyOnSuccess(att) ==
  att.success /\ att.allPages[Len(att.allPages)] # OrigPage

\* if (newTab !== ctx.page)
NewTabShotNeeded(att) == LastPage(att.allPages) # OrigPage

\* The screenshot of the page opened last, when it is not the original page.
NewTab ==
  /\ pc = "newtab"
  /\ LET newTab == LastPage(attempt.allPages)
     IN IF NewTabShotNeeded(attempt)
        THEN \E fullOk \in BOOLEAN, fallbackOk \in BOOLEAN :
               IF ~ScreenshotHelper(fullOk, fallbackOk).threw
               THEN /\ shots' = [shots EXCEPT !["05b-new-tab"] = Shown(newTab, url[newTab])]
                    /\ log' = Append(log, Event("shot05b", newTab))
                    /\ pc' = "record"
               ELSE /\ Throw
                    /\ UNCHANGED <<shots, log>>
        ELSE /\ pc' = "record"
             /\ UNCHANGED <<shots, log>>
  /\ UNCHANGED <<baseline, cache>>
  /\ UNCHANGED <<comparison, pagesBefore, poll, pending, attempt, attemptNo, closeIdx>>
  /\ UNCHANGED runVars
  /\ UNCHANGED tearVars
  /\ UNCHANGED browserVars

\* The artifact of a Test 5 result recorded after the attempts.
NewTabArtifact == PathJoin(SCREENSHOT_DIR, "05b-new-tab")

\* A verdict that asks for a new tab.
Test5Verdict_NewTabOnly(att) ==
  att.success /\ att.allPages[Len(att.allPages)] # 0

\* if (attempt.success): the verdict of Test 5.
Test5Verdict(att) == att.success

\* The baseline saved before the verdict is looked at.
Record_SaveFirst ==
  /\ pc = "record"
  /\ results' = Append(results,
                  TestResult(Test5Step, attempt.success, NewTabArtifact))
  /\ baseline' = shots["05a-before-click"]
  /\ log' = log \o <<Event("saveBaseline", 0),
                     Event("push", IF attempt.success THEN 1 ELSE 0)>>
  /\ pc' = "teardown"
  /\ UNCHANGED <<exitCode, crashed, cache, shots>>
  /\ UNCHANGED tearVars
  /\ UNCHANGED browserVars
  /\ UNCHANGED t5Vars

\* Record pushes then saves whatever the verdict.
Record_SaveAlways ==
  /\ pc = "record"
  /\ results' = Append(results,
                  TestResult(Test5Step, attempt.success, NewTabArtifact))
  /\ baseline' = shots["05a-before-click"]
  /\ log' = log \o <<Event("push", IF attempt.success THEN 1 ELSE 0),
                     Event("saveBaseline", 0)>>
  /\ pc' = "teardown"
  /\ UNCHANGED <<exitCode, crashed, cache, shots>>
  /\ UNCHANGED tearVars
  /\ UNCHANGED browserVars
  /\ UNCHANGED t5Vars

\* The Test 5 result written over the last entry instead of appended.
Record_Overwrites ==
  /\ pc = "record"
  /\ results' = [results EXCEPT ![Len(results)] =
                   TestResult(Test5Step, attempt.success, NewTabArtifact)]
  /\ IF attempt.success
     THEN /\ baseline' = shots["05a-before-click"]
          /\ log' = log \o <<Event("push", 1), Event("saveBaseline", 0)>>
     ELSE /\ log' = Append(log, Event("push", 0))
          /\ UNCHANGED baseline
  /\ pc' = "teardown"
  /\ UNCHANGED <<exitCode, crashed, cache, shots>>
  /\ UNCHANGED tearVars
  /\ UNCHANGED browserVars
  /\ UNCHANGED t5Vars

\* A pass that saves the screenshot of the new tab as the baseline.
Record_SavesNewTabShot ==
  /\ pc = "record"
  /\ IF Test5Verdict(attempt)
     THEN /\ results' = Append(results, TestResult(Test5Step, TRUE, NewTabArtifact))
          /\ \/ /\ baseline' = SaveBaseline(shots["05b-new-tab"], baseline)
                /\ log' = log \o <<Event("push", 1), Event("saveBaseline", 0)>>
                /\ pc' = "teardown"
             \/ /\ Throw
                /\ log' = Append(log, Event("push", 1))
                /\ UNCHANGED baseline
     ELSE /\ results' = Append(results, TestResult(Test5Step, FALSE, NewTabArtifact))
          /\ log' = Append(log, Event("push", 0))
          /\ pc' = "teardown"
          /\ UNCHANGED baseline
  /\ UNCHANGED <<exitCode, crashed, cache, shots>>
  /\ UNCHANGED tearVars
  /\ UNCHANGED browserVars
  /\ UNCHANGED t5Vars

\* if (attempt.success) { results.push(pass); saveBaseline(...) }
\* else { results.push(fail) }
Record ==
  /\ pc = "record"
  /\ IF Test5Verdict(attempt)
     THEN /\ results' = Append(results, TestResult(Test5Step, TRUE, NewTabArtifact))
          /\ \/ /\ baseline' = SaveBaseline(shots["05a-before-click"], baseline)
                /\ log' = log \o <<Event("push", 1), Event("saveBaseline", 0)>>
                /\ pc' = "teardown"
             \/ /\ Throw
                /\ log' = Append(log, Event("push", 1))
                /\ UNCHANGED baseline
     ELSE /\ results' = Append(results, TestResult(Test5Step, FALSE, NewTabArtifact))
          /\ log' = Append(log, Event("push", 0))
          /\ pc' = "teardown"
          /\ UNCHANGED baseline
  /\ UNCHANGED <<exitCode, crashed, cache, shots>>
  /\ UNCHANGED tearVars
  /\ UNCHANGED browserVars
  /\ UNCHANGED t5Vars

\* ------------------------------------------------------ catch, teardown
\* The catch block ending the process itself, as with process.exit(1).
Catch_ExitsProcess ==
  /\ pc = "catch"
  /\ \E shotOk \in BOOLEAN :
       /\ shots' = IF shotOk
                   THEN [shots EXCEPT !["error-crash"] = Shown(OrigPage, url[OrigPage])]
                   ELSE shots
       /\ log' = Append(log, Event("crashShot", IF shotOk THEN 1 ELSE 0))
  /\ crashed' = TRUE
  /\ exitCode' = 1
  /\ pc' = "died"
  /\ UNCHANGED <<results, baseline, cache>>
  /\ UNCHANGED tearVars
  /\ UNCHANGED browserVars
  /\ UNCHANGED t5Vars

\* The catch block without process.exitCode = 1.
Catch_NoExitCode ==
  /\ pc = "catch"
  /\ \E shotOk \in BOOLEAN :
       /\ shots' = IF shotOk
                   THEN [shots EXCEPT !["error-crash"] = Shown(OrigPage, url[OrigPage])]
                   ELSE shots
       /\ log' = Append(log, Event("crashShot", IF shotOk THEN 1 ELSE 0))
  /\ crashed' = TRUE
  /\ pc' = "teardown"
  /\ UNCHANGED <<results, exitCode, baseline, cache>>
  /\ UNCHANGED tearVars
  /\ UNCHANGED browserVars
  /\ UNCHANGED t5Vars

\* catch (error): the crash screenshot is attempted (its failure swallowed),
\* exitCode = 1.
Catch ==
  /\ pc = "catch"
  /\ \E shotOk \in BOOLEAN :
       /\ shots' = IF shotOk
                   THEN [shots EXCEPT !["error-crash"] = Shown(OrigPage, url[OrigPage])]
                   ELSE shots
       /\ log' = Append(log, Event("crashShot", IF shotOk THEN 1 ELSE 0))
  /\ crashed' = TRUE
  /\ exitCode' = 1
  /\ pc' = "teardown"
  /\ UNCHANGED <<results, baseline, cache>>
  /\ UNCHANGED tearVars
  /\ UNCHANGED browserVars
  /\ UNCHANGED t5Vars

\* results.filter((r) => !r.passed)
Failed(rs) ==
  LET NotPassed(r) == ~r.passed
  IN SelectSeq(rs, NotPassed)

\* A report that prints the failures and leaves process.exitCode alone.
Teardown_NoExitCode ==
  /\ pc = "teardown"
  /\ recording' = FALSE
  /\ frames' \in 0..MaxFrames
  /\ browserOpen' = FALSE
  /\ pages' = <<>>
  /\ log' = log \o <<Event("report", 0), Event("stop", 0), Event("closeBrowser", 0)>>
                \o (IF frames' > 0 THEN <<Event("encode", frames')>> ELSE <<>>)
  /\ pc' = "done"
  /\ UNCHANGED <<results, exitCode, crashed, url, nextPage, baseline0>>
  /\ recDir' = IF frames' > 0 THEN "output" ELSE recDir
  /\ UNCHANGED recVars
  /\ UNCHANGED saveVars
  /\ UNCHANGED sideVars
  /\ UNCHANGED fsVars
  /\ UNCHANGED t5Vars

\* teardownTestEnv(ctx, recorder, results): reportResults(results), then
\* totalFrames = await recorder.stop(), await ctx.stagehand.close(), and
\* framesToVideo when totalFrames > 0.
Teardown ==
  /\ pc = "teardown"
  /\ exitCode' = IF Len(Failed(results)) > 0 THEN 1 ELSE exitCode
  /\ recording' = FALSE
  /\ frames' \in 0..MaxFrames
  /\ browserOpen' = FALSE
  /\ pages' = <<>>
  /\ log' = log \o <<Event("report", 0), Event("stop", 0), Event("closeBrowser", 0)>>
                \o (IF frames' > 0 THEN <<Event("encode", frames')>> ELSE <<>>)
  /\ pc' = "done"
  /\ UNCHANGED <<results, crashed, url, nextPage, baseline0>>
  /\ recDir' = IF frames' > 0 THEN "output" ELSE recDir
  /\ UNCHANGED recVars
  /\ UNCHANGED saveVars
  /\ UNCHANGED sideVars
  /\ UNCHANGED fsVars
  /\ UNCHANGED t5Vars

\* The script is started again: what is on disk stays.
NextRun ==
  /\ pc \in {"done", "died"}
  /\ pc' = "setup"
  /\ results' = <<>>
  /\ exitCode' = 0
  /\ crashed' = FALSE
  /\ pages' = <<>>
  /\ url' = [p \in PageIds |-> "blank"]
  /\ nextPage' = 0
  /\ comparison' = NoComparison
  /\ pagesBefore' = 0
  /\ poll' = NoPoll
  /\ pending' = <<>>
  /\ attempt' = NoAttempt
  /\ attemptNo' = 0
  /\ closeIdx' = 0
  /\ log' = <<>>
  /\ recording' = FALSE
  /\ frames' = 0
  /\ browserOpen' = FALSE
  /\ baseline0' = baseline
  /\ UNCHANGED recVars
  /\ UNCHANGED saveVars
  /\ UNCHANGED sideVars
  /\ UNCHANGED fsVars
  /\ UNCHANGED recDir

Next ==
  \/ Setup
  \/ Test1
  \/ Test2
  \/ Test3
  \/ Test4
  \/ T5Shot
  \/ T5VisualCheck
  \/ Act
  \/ Poll
  \/ Settle
  \/ HealClose
  \/ HealCache
  \/ HealGoto
  \/ HealWait
  \/ NewTab
  \/ Record
  \/ Catch
  \/ Teardown
  \/ NextRun

Spec == Init /\ [][Next]_vars

\* main is one sequential async function: every call it awaits returns or
\* throws, so the run always takes its next step.
FairSpec == Spec /\ WF_vars(Next)

\* ------------------------------------- compareWithBaseline on its own
\* The images compareWithBaseline is called with: two widths, two heights,
\* up to three lit pixels.
CompareImages ==
  {Img(w, h, k) : w \in {ImgW, ImgW + 1}, h \in {ImgH, ImgH + 1}, k \in 0..3}

\* What can be at currentPath or at the baseline path.
CompareFiles == {NoFile} \cup {File(i) : i \in CompareImages \cup {CorruptImg}}

\* A file left at opts.diffPath by something else.
OldDiff == File(Img(1, 1, 1))

InitCompare ==
  /\ pc = "cmp_call"
  /\ RecorderStarted
  /\ recDir = "empty"
  /\ SideIdle
  /\ NoSaveCall
  /\ \E current \in CompareFiles, oldDiff \in {NoFile, OldDiff} :
       shots = [n \in ShotNames |->
                  IF n = "05a-before-click" THEN current
                  ELSE IF n = "05a-diff" THEN oldDiff ELSE NoFile]
  /\ baseline \in CompareFiles
  /\ baseline0 = baseline
  /\ cache = [exists |-> FALSE, entries |-> {}]
  /\ results = <<>>
  /\ exitCode = 0
  /\ crashed = FALSE
  /\ pages = <<>>
  /\ url = [p \in PageIds |-> "blank"]
  /\ nextPage = 0
  /\ comparison = NoComparison
  /\ pagesBefore = 0
  /\ poll = NoPoll
  /\ pending = <<>>
  /\ attempt = NoAttempt
  /\ attemptNo = 0
  /\ closeIdx = 0
  /\ log = <<>>
  /\ recording = FALSE
  /\ frames = 0
  /\ browserOpen = FALSE

\* One call compareWithBaseline(currentPath, "05a-before-click", { baselinesDir,
\* diffPath }): it throws, or returns and has written the diff file or not.
CompareCall ==
  /\ pc = "cmp_call"
  /\ LET c == CompareWithBaseline(shots["05a-before-click"], baseline)
     IN IF c.threw
        THEN /\ pc' = "cmp_threw"
             /\ UNCHANGED <<shots, comparison>>
        ELSE /\ shots' = IF c.diffSaved
                         THEN [shots EXCEPT !["05a-diff"] = c.diff]
                         ELSE shots
             /\ comparison' = [mismatchRatio |-> c.mismatchRatio,
                               diffSaved |-> c.diffSaved,
                               skipped |-> c.skipped, done |-> TRUE]
             /\ pc' = "cmp_returned"
  /\ log' = Append(log, Event("compare", 0))
  /\ UNCHANGED <<baseline, cache>>
  /\ UNCHANGED runVars
  /\ UNCHANGED tearVars
  /\ UNCHANGED browserVars
  /\ UNCHANGED <<pagesBefore, poll, pending, attempt, attemptNo, closeIdx>>

\* The same call made once more, on the files as the first call left them.
CompareAgain ==
  /\ pc = "cmp_returned"
  /\ Len(log) < 2
  /\ pc' = "cmp_call"
  /\ comparison' = NoComparison
  /\ UNCHANGED <<log, pagesBefore, poll, pending, attempt, attemptNo, closeIdx>>
  /\ UNCHANGED fsVars
  /\ UNCHANGED runVars
  /\ UNCHANGED tearVars
  /\ UNCHANGED browserVars

NextCompare ==
  \/ CompareCall
  \/ CompareAgain

SpecCompare == InitCompare /\ [][NextCompare]_vars

\* ------------------------------------------------ the recorder on its own
\* What the recorder does not touch: the state of main.
scriptVars ==
  <<pc, log, baseline0, recording, frames, browserOpen, fsVars, runVars,
    browserVars, t5Vars, saveVars, recDir, sideVars>>

\* A frame file written: by the capture loop or by injectFrames, and the
\* number in frame-NNNNN.png.
Frame(by, index) == [by |-> by, index |-> index]

InitRecorder ==
  /\ FreshRun
  /\ RecorderStarted
  /\ recDir = "empty"
  /\ SideIdle
  /\ NoSaveCall
  /\ baseline = NoFile
  /\ baseline0 = NoFile
  /\ cache = [exists |-> FALSE, entries |-> {}]
  /\ shots = [n \in ShotNames |-> NoFile]

\* capture(): the test of while (!stopped), then of if (!injecting), up to
\* the next await: the screenshot call or the interval timer.
RecCaptureLoop ==
  /\ capPc = "loop"
  /\ IF stopped
     THEN /\ capPc' = "ended"
          /\ UNCHANGED capPath
     ELSE IF ~injecting
     THEN /\ frameIndex < MaxRecFrames
          /\ capPc' = "shooting"
          /\ capPath' = frameIndex
     ELSE /\ capPc' = "sleeping"
          /\ UNCHANGED capPath
  /\ UNCHANGED <<frameIndex, stopped, injecting, injPc, injLeft, injPath, injBase,
                 frameLog, stopPc, stopResult>>
  /\ UNCHANGED scriptVars

\* capture(): await page.screenshot({ path: filePath }) settles: frameIndex++
\* or the catch; then the interval timer is started.
RecCaptureShot ==
  /\ capPc = "shooting"
  /\ \E ok \in BOOLEAN :
       IF ok
       THEN /\ frameLog' = Append(frameLog, Frame("capture", capPath))
            /\ frameIndex' = frameIndex + 1
       ELSE UNCHANGED <<frameLog, frameIndex>>
  /\ capPc' = "sleeping"
  /\ UNCHANGED <<stopped, injecting, capPath, injPc, injLeft, injPath, injBase, stopPc,
                 stopResult>>
  /\ UNCHANGED scriptVars

\* capture(): the interval timer fires.
RecCaptureWake ==
  /\ capPc = "sleeping"
  /\ capPc' = "loop"
  /\ UNCHANGED <<frameIndex, stopped, injecting, capPath, injPc, injLeft,
                 injPath, injBase, frameLog, stopPc, stopResult>>
  /\ UNCHANGED scriptVars

\* injectFrames(n) is called: injecting = true and, for n > 0, the first
\* screenshot call; for n = 0 the loop is empty and injecting = false again.
RecInject ==
  /\ injPc = "idle"
  /\ injBase' = frameIndex
  /\ \E n \in 0..MaxInject :
       IF n = 0
       THEN /\ injecting' = FALSE
            /\ UNCHANGED <<injPc, injLeft, injPath>>
       ELSE /\ frameIndex + n <= MaxRecFrames
            /\ injecting' = TRUE
            /\ injPc' = "shooting"
            /\ injLeft' = n
            /\ injPath' = frameIndex
  /\ UNCHANGED <<frameIndex, stopped, capPc, capPath, frameLog, stopPc, stopResult>>
  /\ UNCHANGED scriptVars

\* injectFrames: await page.screenshot({ path: filePath }) settles: frameIndex++
\* and the next turn of the for loop, or the catch; after the loop or the
\* catch, injecting = false.
RecInjectShot ==
  /\ injPc = "shooting"
  /\ \E ok \in BOOLEAN :
       IF ok /\ injLeft > 1
       THEN /\ frameLog' = Append(frameLog, Frame("inject", injPath))
            /\ frameIndex' = frameIndex + 1
            /\ injLeft' = injLeft - 1
            /\ injPath' = frameIndex + 1
            /\ UNCHANGED <<injPc, injecting>>
       ELSE /\ IF ok
               THEN /\ frameLog' = Append(frameLog, Frame("inject", injPath))
                    /\ frameIndex' = frameIndex + 1
               ELSE UNCHANGED <<frameLog, frameIndex>>
            /\ injLeft' = 0
            /\ injecting' = FALSE
            /\ injPc' = "idle"
            /\ UNCHANGED injPath
  /\ UNCHANGED <<stopped, capPc, capPath, injBase, stopPc, stopResult>>
  /\ UNCHANGED scriptVars

\* stop() is called: stopped = true, then await promise.
RecStop ==
  /\ stopPc = "idle"
  /\ stopped' = TRUE
  /\ stopPc' = "waiting"
  /\ UNCHANGED <<frameIndex, injecting, capPc, capPath, injPc, injLeft, injPath, injBase,
                 frameLog, stopResult>>
  /\ UNCHANGED scriptVars

\* stop() without await promise: it returns frameIndex at once.
RecStopReturn_NoWait ==
  /\ stopPc = "waiting"
  /\ stopResult' = frameIndex
  /\ stopPc' = "resolved"
  /\ UNCHANGED <<frameIndex, stopped, injecting, capPc, capPath, injPc, injLeft,
                 injPath, injBase, frameLog>>
  /\ UNCHANGED scriptVars

\* stop(): capture() has ended, return frameIndex.
RecStopReturn ==
  /\ stopPc = "waiting"
  /\ capPc = "ended"
  /\ stopResult' = frameIndex
  /\ stopPc' = "resolved"
  /\ UNCHANGED <<frameIndex, stopped, injecting, capPc, capPath, injPc, injLeft,
                 injPath, injBase, frameLog>>
  /\ UNCHANGED scriptVars



NextRecorder ==
  \/ RecCaptureLoop
  \/ RecCaptureShot
  \/ RecCaptureWake
  \/ RecInject
  \/ RecInjectShot
  \/ RecStop
  \/ RecStopReturn

SpecRecorder == InitRecorder /\ [][NextRecorder]_vars

\* --------------------------------------------------- self-heal on its own
\* Where a tab that is not the GitHub page can be.
WrongUrls == {"blank", "slideshare"}

\* The first actAndAssert has just returned a failure: Tests 1 to 4 are
\* recorded, the visual check was skipped for want of a baseline, and the
\* pages that are open, the original first, are all off github.com.
InitHeal ==
  /\ pc = "heal_close"
  /\ RecorderStarted
  /\ recDir = "empty"
  /\ SideIdle
  /\ NoSaveCall
  /\ \E n \in 1..Cardinality(PageIds) : pages = [i \in 1..n |-> i - 1]
  /\ nextPage = Len(pages)
  /\ \E orig \in {"cfe", "slideshare"}, tabs \in [PageIds -> WrongUrls] :
       url = [p \in PageIds |->
                IF p = OrigPage THEN orig
                ELSE IF p < nextPage THEN tabs[p] ELSE "blank"]
  /\ attempt = ActAndAssertResult(pages, url, TRUE)
  /\ attemptNo = 1
  /\ closeIdx = 1
  /\ pagesBefore = 1
  /\ poll = NoPoll
  /\ pending = <<>>
  /\ comparison = [mismatchRatio |-> Ratio(0, 1), diffSaved |-> FALSE,
                   skipped |-> TRUE, done |-> TRUE]
  /\ results =
       <<TestResult("Test 1: Page navigation", TRUE,
                    PathJoin(SCREENSHOT_DIR, "01-page-loaded")),
         TestResult("Test 2: Profile extraction", TRUE,
                    PathJoin(SCREENSHOT_DIR, "02-profile-extracted")),
         TestResult("Test 3: Book extraction", TRUE,
                    PathJoin(SCREENSHOT_DIR, "03-books-extracted")),
         TestResult("Test 4: Link observation", TRUE,
                    PathJoin(SCREENSHOT_DIR, "04-links-observed"))>>
  /\ exitCode = 0
  /\ crashed = FALSE
  /\ baseline = NoFile
  /\ baseline0 = NoFile
  /\ cache \in CacheStates
  /\ \E img \in ViewportShots :
       shots = [n \in ShotNames |->
                  IF n \in {"01-page-loaded", "02-profile-extracted",
                            "03-books-extracted", "04-links-observed"}
                  THEN Shown(OrigPage, "cfe")
                  ELSE IF n = "05a-before-click" THEN File(img) ELSE NoFile]
  /\ log = <<Event("shot05a", OrigPage), Event("compare", 0), Event("act", 1),
             Event("verify", 0)>>
  /\ recording = TRUE
  /\ frames = 0
  /\ browserOpen = TRUE

\* Self-heal up to the retry: the block of if (!attempt.success).
NextHeal ==
  \/ HealClose
  \/ HealCache
  \/ HealGoto
  \/ HealWait

SpecHeal == InitHeal /\ [][NextHeal]_vars

\* ------------------------------------------------ saveBaseline on its own
\* Calls of saveBaseline made one after the other.
MaxSaves == 2

\* What the directory can be when saveBaseline is called: absent, or there
\* with any of the baseline files under each name.
BaselineDirs ==
  {NoDir} \cup
  {[exists |-> TRUE, files |-> f] : f \in [BaselineNames -> BaselineFiles]}

\* The arguments of a call: the file at screenshotPath (or none) and the name.
SaveArgs == [src : BaselineFiles, name : BaselineNames]

InitSave ==
  /\ FreshRun
  /\ RecorderStarted
  /\ recDir = "empty"
  /\ SideIdle
  /\ baseline = NoFile
  /\ baseline0 = NoFile
  /\ cache = [exists |-> FALSE, entries |-> {}]
  /\ shots = [n \in ShotNames |-> NoFile]
  /\ saveDir \in BaselineDirs
  /\ saveArg \in SaveArgs
  /\ savePc = "call"
  /\ saveRet = NoPath
  /\ saveCalls = 0

\* One call saveBaseline(screenshotPath, baselineName, baselinesDir).
SaveCall ==
  /\ savePc = "call"
  /\ LET r == SaveBaselineCall(saveDir, saveArg.src, saveArg.name)
     IN /\ saveDir' = r.dir
        /\ saveRet' = r.ret
        /\ savePc' = IF r.threw THEN "threw" ELSE "returned"
  /\ saveCalls' = saveCalls + 1
  /\ UNCHANGED saveArg
  /\ UNCHANGED recVars
  /\ UNCHANGED <<pc, log, baseline0, recording, frames, browserOpen, recDir>>
  /\ UNCHANGED sideVars
  /\ UNCHANGED fsVars
  /\ UNCHANGED runVars
  /\ UNCHANGED browserVars
  /\ UNCHANGED t5Vars

\* Another call, on the directory as the call before left it.
SaveAgain ==
  /\ savePc \in {"returned", "threw"}
  /\ saveCalls < MaxSaves
  /\ saveArg' \in SaveArgs
  /\ savePc' = "call"
  /\ saveRet' = NoPath
  /\ UNCHANGED <<saveDir, saveCalls>>
  /\ UNCHANGED recVars
  /\ UNCHANGED <<pc, log, baseline0, recording, frames, browserOpen, recDir>>
  /\ UNCHANGED sideVars
  /\ UNCHANGED fsVars
  /\ UNCHANGED runVars
  /\ UNCHANGED browserVars
  /\ UNCHANGED t5Vars

NextSave ==
  \/ SaveCall
  \/ SaveAgain

SpecSave == InitSave /\ [][NextSave]_vars

\* Every screenshot call settles and every timer fires, so capture(), a call
\* of injectFrames and a call of stop() each take their next step.
FairSpecRecorder ==
  /\ SpecRecorder
  /\ WF_vars(RecCaptureLoop)
  /\ WF_vars(RecCaptureShot)
  /\ WF_vars(RecCaptureWake)
  /\ WF_vars(RecInjectShot)
  /\ WF_vars(RecStopReturn)

\* ------------------------------------- teardownTestEnv, step by step
\* teardownTestEnv with the recorder running beside it: the run has thrown in
\* Test 1 (goto) or in Test 2 (extract), the crash screenshot failed, and the
\* recorder has written some frames and is at any point of its loop.
InitTeardown ==
  /\ pc = "teardown"
  /\ NoSaveCall
  /\ recDir = "empty"
  /\ SideIdle
  /\ \E n \in 0..1 :
       /\ results = [i \in 1..n |->
                       TestResult("Test 1: Page navigation", TRUE,
                                  PathJoin(SCREENSHOT_DIR, "01-page-loaded"))]
       /\ url = [p \in PageIds |->
                   IF p = OrigPage /\ n = 1 THEN "cfe" ELSE "blank"]
       /\ shots = [s \in ShotNames |->
                     IF s = "01-page-loaded" /\ n = 1
                     THEN Shown(OrigPage, "cfe") ELSE NoFile]
  /\ exitCode = 1
  /\ crashed = TRUE
  /\ log = <<Event("crashShot", 0)>>
  /\ pages = <<OrigPage>>
  /\ nextPage = OrigPage + 1
  /\ browserOpen = TRUE
  /\ recording = TRUE
  /\ frames = 0
  /\ baseline \in {NoFile, File(Img(ImgW, ImgH, 0))}
  /\ baseline0 = baseline
  /\ cache = [exists |-> FALSE, entries |-> {}]
  /\ comparison = NoComparison
  /\ pagesBefore = 0
  /\ poll = NoPoll
  /\ pending = <<>>
  /\ attempt = NoAttempt
  /\ attemptNo = 0
  /\ closeIdx = 0
  /\ frameIndex \in 0..(MaxRecFrames - 1)
  /\ frameLog = [i \in 1..frameIndex |-> Frame("capture", i - 1)]
  /\ stopped = FALSE
  /\ injecting = FALSE
  /\ capPc \in {"loop", "shooting", "sleeping"}
  /\ capPath = frameIndex
  /\ injPc = "idle"
  /\ injLeft = 0
  /\ injPath = 0
  /\ injBase = 0
  /\ stopPc = "idle"
  /\ stopResult = NotReturned

\* What the steps of teardownTestEnv leave alone.
tdVars ==
  <<results, crashed, url, nextPage, baseline0, fsVars, t5Vars, saveVars,
    sideVars>>

\* reportResults(results)
TeardownReport ==
  /\ pc = "teardown"
  /\ exitCode' = IF Len(Failed(results)) > 0 THEN 1 ELSE exitCode
  /\ log' = Append(log, Event("report", 0))
  /\ pc' = "td_stop"
  /\ UNCHANGED <<recording, frames, browserOpen, pages>>
  /\ UNCHANGED recVars
  /\ UNCHANGED tdVars
  /\ UNCHANGED recDir

\* recorder.stop() is called: stopped = true, and teardown awaits it.
TeardownStop ==
  /\ pc = "td_stop"
  /\ stopPc = "idle"
  /\ stopped' = TRUE
  /\ stopPc' = "waiting"
  /\ pc' = "td_wait"
  /\ UNCHANGED <<frameIndex, injecting, capPc, capPath, injPc, injLeft, injPath, injBase,
                 frameLog, stopResult>>
  /\ UNCHANGED <<exitCode, log, recording, frames, browserOpen, pages>>
  /\ UNCHANGED tdVars
  /\ UNCHANGED recDir

\* The browser closed without the await of recorder.stop().
TeardownStopped_NoAwait ==
  /\ pc = "td_wait"
  /\ frames' = frameIndex
  /\ recording' = FALSE
  /\ log' = Append(log, Event("stop", 0))
  /\ pc' = "td_close"
  /\ UNCHANGED <<exitCode, browserOpen, pages>>
  /\ UNCHANGED recVars
  /\ UNCHANGED tdVars
  /\ UNCHANGED recDir

\* const totalFrames = await recorder.stop(): stop() has resolved.
TeardownStopped ==
  /\ pc = "td_wait"
  /\ stopPc = "resolved"
  /\ frames' = stopResult
  /\ recording' = FALSE
  /\ log' = Append(log, Event("stop", 0))
  /\ pc' = "td_close"
  /\ UNCHANGED <<exitCode, browserOpen, pages>>
  /\ UNCHANGED recVars
  /\ UNCHANGED tdVars
  /\ UNCHANGED recDir

\* await ctx.stagehand.close(), then the test of totalFrames > 0.
TeardownClose ==
  /\ pc = "td_close"
  /\ browserOpen' = FALSE
  /\ pages' = <<>>
  /\ log' = Append(log, Event("closeBrowser", 0))
  /\ pc' = IF frames > 0 THEN "td_encode" ELSE "done"
  /\ UNCHANGED <<exitCode, recording, frames>>
  /\ UNCHANGED recVars
  /\ UNCHANGED tdVars
  /\ UNCHANGED recDir

\* framesToVideo(FRAMES_DIR, RECORDING_DIR, fps): ffmpeg runs, or fails and
\* null is returned; either way teardown ends.
TeardownEncode ==
  /\ pc = "td_encode"
  /\ log' = Append(log, Event("encode", frames))
  /\ pc' = "done"
  /\ UNCHANGED <<exitCode, recording, frames, browserOpen, pages>>
  /\ UNCHANGED recVars
  /\ UNCHANGED tdVars
  /\ recDir' = "output"

NextTeardown ==
  \/ TeardownReport
  \/ TeardownStop
  \/ TeardownStopped
  \/ TeardownClose
  \/ TeardownEncode
  \/ RecCaptureLoop
  \/ RecCaptureShot
  \/ RecCaptureWake
  \/ RecStopReturn

SpecTeardown == InitTeardown /\ [][NextTeardown]_vars

\* ------------------------------------------ Test 5 of the two scripts
\* e2e-cfe.ts: await new Promise((r) => setTimeout(r, 2000)) after act().
MONO_WAIT_MS == 2000

\* part_000: await new Promise((r) => setTimeout(r, 1000)) after the poll.
SETTLE_MS == 1000

NoTab == "none"

\* What one click does: the URL it leaves the original page on, the URL of the
\* tab it opens or NoTab, and when, in ms after act() returned, the tab is in
\* pages().
AttemptOutcomes ==
  {a \in [nav : {"cfe", "github"}, tab : TabUrls \cup {NoTab},
          arrival : ArrivalTimes] :
     (a.tab = NoTab) <=> (a.arrival = Never)}

\* What the comparison of the 05a screenshot with the baseline can return.
CompareOutcomes ==
  {r \in {CompareWithBaseline(File(Img(ImgW, ImgH, 0)), b) : b \in BaselineFiles} :
     ~r.threw}

\* The outcomes of the collaborators of one run of Test 5: the comparison, the
\* clicks of the first attempt and of the retry, whether .cache/cfe-test is
\* there, whether close() of an extra page works, and whether a tab that came
\* after the first check is open at the second.
Scripts ==
  [given : {TRUE}, cmp : CompareOutcomes, attempts : [1..2 -> AttemptOutcomes],
   cacheExists : BOOLEAN, closeOk : BOOLEAN, late : BOOLEAN]

\* stagehand.context.pages() and the URLs, t ms after the act() of click a
\* returned: base is what was open before, tabId the handle of a's tab.
Observed(base, urls, a, tabId, t) ==
  LET arrived == a.arrival # Never /\ a.arrival <= t
  IN [allPages |-> IF arrived THEN Append(base, tabId) ELSE base,
      urls |-> [p \in PageIds |->
                  IF p = OrigPage THEN a.nav
                  ELSE IF p = tabId THEN a.tab ELSE urls[p]],
      arrived |-> arrived]

\* actAndAssert of e2e-cfe.ts reads pages() once, 2000 ms after act().
MonoObservedAt(a) == MONO_WAIT_MS

\* actAndAssert of part_000 reads pages() 1000 ms after the poll loop is left.
RefaObservedAt(a) == PollLoop(0, a.arrival).exitAt + SETTLE_MS

\* actAndAssert of e2e-cfe.ts: success: !!githubPage.
MonoActAndAssertResult(allPages, urls) ==
  LET githubPage == FindGithubPage(allPages, urls)
  IN [success |-> githubPage # NoPage, githubPage |-> githubPage,
      allPages |-> allPages]

\* actAndAssert of part_000, whatever act() returned.
RefaActAndAssertResult(allPages, urls) ==
  ActAndAssertResult(allPages, urls, TRUE)

\* What a run of Test 5 did: the verdict pushed and its artifact, the calls of
\* act(), whether the cache directory was removed and made again, whether
\* saveBaseline was called.
Test5Outcome(passed, artifact, acts, cleared) ==
  [ran |-> TRUE, passed |-> passed, artifact |-> artifact, acts |-> acts,
   cacheCleared |-> cleared, baselineSaved |-> passed]

\* When actAndAssert of script which reads pages(), after click a.
ObservedAt(which, a) ==
  IF which = "e2e-cfe" THEN MonoObservedAt(a) ELSE RefaObservedAt(a)

\* What actAndAssert of script which returns.
Result(which, allPages, urls) ==
  IF which = "e2e-cfe" THEN MonoActAndAssertResult(allPages, urls)
  ELSE RefaActAndAssertResult(allPages, urls)

\* Test 5 of script which, from the comparison to the push, on script s of
\* outcomes, with no collaborator throwing.
Test5Flow(which, s) ==
  IF PageVisuallyBroken(s.cmp)
  THEN Test5Outcome(FALSE, DiffArtifact, 0, FALSE)
  ELSE LET a1 == s.attempts[1]
           o1 == Observed(<<OrigPage>>, [p \in PageIds |-> "blank"], a1, 1,
                          ObservedAt(which, a1))
           r1 == Result(which, o1.allPages, o1.urls)
       IN IF r1.success
          THEN Test5Outcome(Test5Verdict(r1), NewTabArtifact, 1, FALSE)
          ELSE LET kept == IF s.closeOk THEN <<>>
                           ELSE ExtraPages(r1.allPages)
                   came == IF a1.arrival # Never /\ ~o1.arrived /\ s.late
                           THEN <<1>> ELSE <<>>
                   a2 == s.attempts[2]
                   o2 == Observed(<<OrigPage>> \o kept \o came, o1.urls, a2, 2,
                                  ObservedAt(which, a2))
                   r2 == Result(which, o2.allPages, o2.urls)
               IN Test5Outcome(Test5Verdict(r2), NewTabArtifact, 2,
                               ClearCache([exists |-> s.cacheExists,
                                           entries |-> {CacheKey}]).entries = {})

\* Test 5 of e2e-cfe.ts.
MonoTest5(s) == Test5Flow("e2e-cfe", s)

\* Test 5 of part_000.
RefaTest5(s) == Test5Flow("part_000", s)

\* One script is given; neither script of the repository has run on it.
InitEquiv ==
  /\ FreshRun
  /\ RecorderStarted
  /\ NoSaveCall
  /\ recDir = "empty"
  /\ baseline = NoFile
  /\ baseline0 = NoFile
  /\ cache = [exists |-> FALSE, entries |-> {}]
  /\ shots = [n \in ShotNames |-> NoFile]
  /\ script \in Scripts
  /\ mono = NotRun
  /\ refa = NotRun
  /\ NoHighlight
  /\ NoShotCall

\* e2e-cfe.ts is run on the script.
RunMonolith ==
  /\ script.given
  /\ ~mono.ran
  /\ mono' = MonoTest5(script)
  /\ UNCHANGED <<script, refa>>
  /\ UNCHANGED <<hlVars, shVars>>
  /\ UNCHANGED <<pc, log, baseline0, recording, frames, browserOpen, recDir>>
  /\ UNCHANGED <<recVars, saveVars, fsVars, runVars, browserVars, t5Vars>>

\* The refactored script is run on the script.
RunRefactored ==
  /\ script.given
  /\ ~refa.ran
  /\ refa' = RefaTest5(script)
  /\ UNCHANGED <<script, mono>>
  /\ UNCHANGED <<hlVars, shVars>>
  /\ UNCHANGED <<pc, log, baseline0, recording, frames, browserOpen, recDir>>
  /\ UNCHANGED <<recVars, saveVars, fsVars, runVars, browserVars, t5Vars>>

NextEquiv ==
  \/ RunMonolith
  \/ RunRefactored

SpecEquiv == InitEquiv /\ [][NextEquiv]_vars

\* ------------------------------------------------- highlight helpers
\* The entries of one highlightElements call, and the elements the helpers
\* have appended to one document.
MaxActions == 2

MaxOverlays == 6

\* let container = document.getElementById(containerId); if (!container) {
\* container = document.createElement("div"); ...appendChild(container) },
\* made whether or not the id is already in the document.
EnsureContainer_AlwaysCreates(d) == [d EXCEPT !.containers = @ + 1]

\* let container = document.getElementById(containerId); if (!container) {
\* container = document.createElement("div"); ...appendChild(container) }
EnsureContainer(d) ==
  IF d.containers = 0 THEN [d EXCEPT !.containers = 1] ELSE d

\* What a selector does in the page: it resolves to an element, to none, or
\* the lookup throws.
Resolutions == {"found", "none", "throws"}

\* highlightElement's selector and opts: label and showCursor given or not.
ElementCalls ==
  [op : {"highlightElement"}, resolves : Resolutions, label : BOOLEAN,
   showCursor : BOOLEAN]

\* One entry of highlightElements' actions: its selector and description.
ObservedActions == [resolves : Resolutions, description : BOOLEAN]

ElementsCalls ==
  [op : {"highlightElements"}, actions : SeqsUpTo(ObservedActions, MaxActions)]

\* The elements a call of highlightElement appends to the container: the
\* overlay, the badge when there is a label, the cursor when asked for.
ElementOverlays(c) ==
  1 + (IF c.label THEN 1 ELSE 0) + (IF c.showCursor THEN 1 ELSE 0)

\* The elements the loop of highlightElements appends: for every action whose
\* selector resolves, the overlay, the number badge, and the tip when there is
\* a description.
ElementsOverlays(actions) ==
  LET found == {i \in 1..Len(actions) : actions[i].resolves = "found"}
      tips == {i \in found : actions[i].description}
  IN 2 * Cardinality(found) + Cardinality(tips)

\* highlightElement(page, selector, opts): nothing when the selector resolves
\* to no element or eval throws; else the element is scrolled into view, the
\* container is ensured and the overlays are appended to it.
HighlightElement ==
  /\ \E c \in ElementCalls :
       /\ hlCall' = c
       /\ IF c.resolves = "found"
          THEN /\ dom.overlays + ElementOverlays(c) <= MaxOverlays
               /\ dom' = [EnsureContainer(dom) EXCEPT
                            !.overlays = @ + ElementOverlays(c),
                            !.scrolledTo = "element"]
          ELSE dom' = dom
  /\ UNCHANGED <<eqVars, shVars>>
  /\ UNCHANGED <<pc, log, baseline0, recording, frames, browserOpen, recDir>>
  /\ UNCHANGED <<recVars, saveVars, fsVars, runVars, browserVars, t5Vars>>

\* highlightElements(page, actions): the container is ensured first, then the
\* loop appends the overlays of every action whose selector resolves.
HighlightElements ==
  /\ \E c \in ElementsCalls :
       /\ hlCall' = c
       /\ dom.overlays + ElementsOverlays(c.actions) <= MaxOverlays
       /\ dom' = [EnsureContainer(dom) EXCEPT
                    !.overlays = @ + ElementsOverlays(c.actions)]
  /\ UNCHANGED <<eqVars, shVars>>
  /\ UNCHANGED <<pc, log, baseline0, recording, frames, browserOpen, recDir>>
  /\ UNCHANGED <<recVars, saveVars, fsVars, runVars, browserVars, t5Vars>>

\* removeHighlights(page): const c = document.getElementById(containerId);
\* if (c) c.remove(): the first element with the id goes, with its children.
RemoveHighlights ==
  /\ hlCall' = [op |-> "removeHighlights"]
  /\ dom' = IF dom.containers > 0
            THEN [dom EXCEPT !.containers = @ - 1, !.overlays = 0]
            ELSE dom
  /\ UNCHANGED <<eqVars, shVars>>
  /\ UNCHANGED <<pc, log, baseline0, recording, frames, browserOpen, recDir>>
  /\ UNCHANGED <<recVars, saveVars, fsVars, runVars, browserVars, t5Vars>>

\* A page that has loaded and that no helper has touched.
InitHighlight ==
  /\ FreshRun
  /\ RecorderStarted
  /\ NoSaveCall
  /\ recDir = "empty"
  /\ baseline = NoFile
  /\ baseline0 = NoFile
  /\ cache = [exists |-> FALSE, entries |-> {}]
  /\ shots = [n \in ShotNames |-> NoFile]
  /\ NoScriptRun
  /\ NoHighlight
  /\ NoShotCall

NextHighlight ==
  \/ HighlightElement
  \/ HighlightElements
  \/ RemoveHighlights

SpecHighlight == InitHighlight /\ [][NextHighlight]_vars

\* ------------------------------------------- the screenshot helper
\* targetPage is not given: the default parameter value applies.
NotGiven == NoPage

\* createScreenshotHelper(page, dir)(name, targetPage) where the captures of
\* the target work or not: the calls of screenshot() made, in order, each with
\* the page it is made on, its path and whether fullPage is set; whether the
\* call throws; the path returned (NoPath when it throws); the file written.
ScreenshotCall(page, dir, name, targetPage, fullOk, fallbackOk) ==
  LET target == IF targetPage = NotGiven THEN page ELSE targetPage
      filePath == PathJoin(dir, name)
      h == ScreenshotHelper(fullOk, fallbackOk)
  IN [done |-> TRUE,
      captures |-> [i \in 1..Len(h.captures) |->
                      [page |-> target, path |-> filePath,
                       fullPage |-> h.captures[i] = "fullPage"]],
      threw |-> h.threw,
      ret |-> IF h.threw THEN NoPath ELSE filePath,
      written |-> IF h.written THEN filePath ELSE NoPath]

\* The helpers that can be made and the calls that can be made of them.
ShotCalls ==
  [given : {TRUE}, page : PageIds, dir : {SCREENSHOT_DIR, BASELINES_DIR},
   name : ShotNames, targetPage : PageIds \cup {NotGiven},
   fullOk : BOOLEAN, fallbackOk : BOOLEAN]

InitShot ==
  /\ FreshRun
  /\ RecorderStarted
  /\ NoSaveCall
  /\ recDir = "empty"
  /\ baseline = NoFile
  /\ baseline0 = NoFile
  /\ cache = [exists |-> FALSE, entries |-> {}]
  /\ shots = [n \in ShotNames |-> NoFile]
  /\ NoScriptRun
  /\ NoHighlight
  /\ shotCall \in ShotCalls
  /\ shotOut = [done |-> FALSE]

\* The call is made.
ShotCall ==
  /\ shotCall.given
  /\ ~shotOut.done
  /\ shotOut' = ScreenshotCall(shotCall.page, shotCall.dir, shotCall.name,
                               shotCall.targetPage, shotCall.fullOk,
                               shotCall.fallbackOk)
  /\ UNCHANGED shotCall
  /\ UNCHANGED <<eqVars, hlVars>>
  /\ UNCHANGED <<pc, log, baseline0, recording, frames, browserOpen, recDir>>
  /\ UNCHANGED <<recVars, saveVars, fsVars, runVars, browserVars, t5Vars>>

NextShot == ShotCall

SpecShot == InitShot /\ [][NextShot]_vars

\* ------------------------------------------------------------ properties
Has(o) == Count(log, o) > 0

\* The outcome verifications of this run, in order: arg 1 passed, arg 0 failed.
Verdicts ==
  LET IsVerify(e) == e.op = "verify"
  IN SelectSeq(log, IsVerify)

\* The try block of main ran to its end: no error was caught.
TryCompleted == pc \in {"teardown", "done"} /\ ~crashed

Test5Recorded == Len(results) = 5

\* The retry is about to be invoked: self-heal is complete.
AtRetry == pc = "act" /\ attemptNo = 1

\* C1: act() is never invoked a third time and self-heal (cache clear, reload)
\* never runs twice; a run that completes with every outcome verification
\* failed has invoked act() exactly twice, reloaded exactly once and recorded
\* Test 5 as failed.
C1_SelfHealAtMostOnce ==
  /\ Count(log, "act") <= 2
  /\ Count(log, "goto") <= 1
  /\ Count(log, "rm") <= 1
  /\ (/\ TryCompleted
      /\ Has("verify")
      /\ \A i \in 1..Len(Verdicts) : Verdicts[i].arg = 0)
     => /\ Count(log, "act") = 2
        /\ Len(Verdicts) = 2
        /\ Count(log, "goto") = 1
        /\ Count(log, "networkidle") = 1
        /\ Count(log, "mkdir") = Count(log, "rm")
        /\ Test5Recorded
        /\ ~results[5].passed

C1_Witness ==
  /\ pc = "done"
  /\ ~crashed
  /\ Verdicts = <<Event("verify", 0), Event("verify", 0)>>
  /\ Count(log, "act") = 2
  /\ Count(log, "rm") = 1
  /\ Test5Recorded
  /\ ~results[5].passed

\* C2: once the comparison with an existing baseline has returned a
\* mismatchRatio above 0.10, Test 5 is recorded as failed and, in that run,
\* act() is not invoked, no page is closed, the cache is not cleared and the
\* page is not reloaded.
C2_VisualRegressionShortCircuit ==
  (/\ comparison.done
   /\ ~comparison.skipped
   /\ comparison.mismatchRatio.num * ThresholdDen
        > ThresholdNum * comparison.mismatchRatio.den)
  => /\ Exists(baseline0)
     /\ Test5Recorded
     /\ ~results[5].passed
     /\ pc \in {"teardown", "done"}
     /\ ~Has("act")
     /\ ~Has("verify")
     /\ ~Has("close")
     /\ ~Has("rm")
     /\ ~Has("goto")
     /\ ~Has("saveBaseline")
     /\ url[OrigPage] = "cfe"
     /\ pc = "teardown" => pages = <<OrigPage>>

C2_Witness ==
  /\ pc = "done"
  /\ comparison.done
  /\ comparison.diffSaved
  /\ comparison.mismatchRatio.num * ThresholdDen
       > ThresholdNum * comparison.mismatchRatio.den
  /\ Test5Recorded
  /\ ~results[5].passed

\* C3: in a run that completes after a first attempt whose outcome
\* verification failed, there was exactly one retry, the page had passed the
\* visual check, and Test 5 is recorded as passed if the retry's verification
\* passed and as failed if it failed.
C3_RecoverableExactlyOnce ==
  /\ (Test5Recorded /\ Len(Verdicts) = 2)
     => results[5].passed = (Verdicts[2].arg = 1)
  /\ (TryCompleted /\ Has("verify") /\ Verdicts[1].arg = 0)
     => /\ Len(Verdicts) = 2
        /\ comparison.done
        /\ comparison.skipped \/
             comparison.mismatchRatio.num * ThresholdDen
               <= ThresholdNum * comparison.mismatchRatio.den
        /\ Test5Recorded
        /\ results[5].passed = (Verdicts[2].arg = 1)

C3_Witness ==
  /\ pc = "done"
  /\ ~crashed
  /\ Verdicts = <<Event("verify", 0), Event("verify", 1)>>
  /\ Test5Recorded
  /\ results[5].passed
  /\ Len(attempt.allPages) = 1

\* The URL of page p contains "github.com".
OnGithubNow(p) == Includes(UrlText(url[p]), GITHUB_COM)

\* actAndAssert has just returned: nothing has touched the pages since.
AttemptJustReturned ==
  pc = "newtab" \/ (pc = "heal_close" /\ closeIdx = 1)

\* C4: when an attempt returns, after the poll and the settle delay, it is a
\* success if and only if some open page's URL contains "github.com" or the
\* original page's URL contains it; this holds whatever act() returned.
C4_DualSuccessSignal ==
  AttemptJustReturned
  => /\ attempt.allPages = pages
     /\ attempt.success
          <=> \/ \E i \in 1..Len(pages) : OnGithubNow(pages[i])
              \/ OnGithubNow(OrigPage)
     /\ Verdicts[Len(Verdicts)].arg = (IF attempt.success THEN 1 ELSE 0)

\* An in-place navigation of the original page, no new tab, is a success.
C4_Witness ==
  /\ pc = "newtab"
  /\ pages = <<OrigPage>>
  /\ url[OrigPage] = "github"
  /\ attempt.success

\* push(1) is in the log before saveBaseline.
PassPushedBeforeSave ==
  \E i \in 1..Len(log), j \in 1..Len(log) :
    /\ i < j
    /\ log[i] = Event("push", 1)
    /\ log[j].op = "saveBaseline"

\* C5: the baseline file is written only after Test 5 has been recorded as
\* passed in the same run; a run in which Test 5 is recorded as failed, or
\* which crashes before Test 5 is recorded as passed, leaves the baseline file
\* as it was when the run started.
C5_BaselineWriteOnlyAfterPass ==
  /\ (Has("saveBaseline") \/ baseline # baseline0)
     => /\ Test5Recorded
        /\ results[5].passed
        /\ PassPushedBeforeSave
  /\ (Test5Recorded /\ ~results[5].passed) => baseline = baseline0
  /\ (crashed /\ ~Test5Recorded) => baseline = baseline0

C5_Witness ==
  /\ Has("saveBaseline")
  /\ baseline # baseline0
  /\ Test5Recorded
  /\ results[5].passed

\* C6: when the run completes with Test 5 passed, on the first attempt or
\* after self-heal, the baseline file equals the pre-action screenshot this
\* run captured at the visual check, whatever the baseline was before.
C6_BaselineIsPreActionShot ==
  (TryCompleted /\ Test5Recorded /\ results[5].passed)
  => /\ Has("shot05a")
     /\ Exists(baseline)
     /\ baseline = shots["05a-before-click"]
     /\ Content(baseline) \in ViewportShots

\* Passed after self-heal, over an existing baseline that differed.
C6_Witness ==
  /\ pc = "done"
  /\ ~crashed
  /\ Test5Recorded
  /\ results[5].passed
  /\ Count(log, "act") = 2
  /\ Exists(baseline0)
  /\ baseline # baseline0
  /\ baseline = shots["05a-before-click"]

\* C7 as stated: in a run in which the baseline is written, no step
\* (Tests 1 to 5) is recorded with passed = false.
C7_Original_NoStepFailed ==
  Has("saveBaseline") => \A i \in 1..Len(results) : results[i].passed

\* C7, amended: in a run in which the baseline is written, Test 1 and Test 5
\* are recorded as passed; Tests 2 to 4 are recorded, passed or failed.
C7_BaselineOnlyWhenTest5Passed ==
  Has("saveBaseline")
  => /\ Len(results) = 5
     /\ results[1].passed
     /\ results[5].passed
     /\ results[5].step = Test5Step

\* The baseline is written in a run whose Test 2 is recorded as failed.
C7_Witness ==
  /\ Has("saveBaseline")
  /\ Len(results) = 5
  /\ ~results[2].passed
  /\ baseline = shots["05a-before-click"]

\* The position in the log of the first outcome verification.
FirstVerify == CHOOSE i \in 1..Len(log) : log[i].op = "verify" /\
                 \A j \in 1..(i - 1) : log[j].op # "verify"

\* The close attempts self-heal owes: one per page of the failed attempt
\* other than the original page, in the order of the page list.
OwedCloses ==
  LET NotOrig(p) == p # OrigPage
      extra == SelectSeq(attempt.allPages, NotOrig)
  IN [i \in 1..Len(extra) |-> Event("close", extra[i])]

\* What self-heal does, in order, when the cache directory is there or not.
HealSteps(withDir) ==
  OwedCloses
    \o (IF withDir THEN <<Event("rm", 0), Event("mkdir", 0)>> ELSE <<>>)
    \o <<Event("goto", OrigPage), Event("networkidle", OrigPage)>>

\* C8: when the second act() is about to be invoked, what happened since the
\* failed verification is, in this order: a close attempt on every extraneous
\* page, the cache invalidation, the goto of the original page to
\* https://cfe.jp/ and the completed wait for network idle; the cache holds
\* no entry and the original page is on https://cfe.jp/.  A second act() in
\* the log comes right after that wait.
C8_SelfHealOrdering ==
  /\ AtRetry
     => /\ Has("verify")
        /\ SubSeq(log, FirstVerify + 1, Len(log))
             \in {HealSteps(TRUE), HealSteps(FALSE)}
        /\ Has("rm") <=> cache.exists
        /\ cache.entries = {}
        /\ UrlText(url[OrigPage]) = CFE_URL
  /\ \A i \in 1..Len(log) :
       log[i] = Event("act", 2)
       => /\ i > 2
          /\ log[i - 1] = Event("networkidle", OrigPage)
          /\ log[i - 2] = Event("goto", OrigPage)

\* The retry has been invoked after a self-heal that closed a page and
\* cleared the cache.
C8_Witness ==
  /\ pc = "poll"
  /\ attemptNo = 2
  /\ Has("close")
  /\ Has("rm")
  /\ log[Len(log)] = Event("act", 2)

\* C9 as stated: when the retry is invoked the cache directory exists and is
\* empty, whatever its state before self-heal.
C9_Original_ExistsAndEmpty ==
  AtRetry => cache.exists /\ cache.entries = {}

\* C9, amended: when the retry is invoked the cache directory holds no entry;
\* it exists, removed and made again, if it existed when self-heal reached the
\* cache step, and it is still absent if it was absent then.
C9_CacheEmptyOrAbsentAtRetry ==
  AtRetry
  => /\ cache.entries = {}
     /\ cache.exists <=> Has("rm")
     /\ Count(log, "mkdir") = Count(log, "rm")
     /\ Has("rm") =>
          \E i \in 1..(Len(log) - 1) :
            log[i].op = "rm" /\ log[i + 1].op = "mkdir"

\* A populated cache has been cleared and made again before the retry.
C9_Witness ==
  /\ AtRetry
  /\ Has("rm")
  /\ cache = [exists |-> TRUE, entries |-> {}]

\* C10 as stated: when Test 5 is recorded as failed for visual regression,
\* with screenshots/05a-diff.png as its artifact, that file was written in
\* this run.
C10_DiffImagePersisted ==
  (Test5Recorded /\ results[5].screenshot = DiffArtifact)
  => Exists(shots["05a-diff"])

\* Test 5 was aborted for visual regression: its result carries the diff path.
AbortedForVisualRegression ==
  Test5Recorded /\ results[5].screenshot = DiffArtifact /\ ~results[5].passed

\* The run went on from the visual check to the action.
ProceededToAction == pc = "act" \/ Has("act")

ComparedWithBaseline == comparison.done /\ ~comparison.skipped

\* C11: after a non-skipped comparison Test 5 is aborted as failed exactly
\* when mismatchRatio >= 0.10: a ratio equal to 0.10 aborts.
C11_Original_AbortAtOrAbove ==
  ComparedWithBaseline
  => (AbortedForVisualRegression
        <=> comparison.mismatchRatio.num * ThresholdDen
              >= ThresholdNum * comparison.mismatchRatio.den)

\* C12: in a run that started with no baseline file, once the pre-action
\* screenshot is taken and compared, the comparison was skipped, whatever the
\* screenshot shows; the run is at act() or has invoked it, and Test 5 is
\* never recorded as failed for visual regression.
C12_FirstRunProceeds ==
  (~Exists(baseline0) /\ Has("shot05a") /\ pc # "t5_check")
  => /\ comparison.done
     /\ comparison.skipped
     /\ comparison.mismatchRatio.num = 0
     /\ ~Exists(shots["05a-diff"])
     /\ ProceededToAction
     /\ Test5Recorded => results[5].screenshot = NewTabArtifact

\* A first run, with a lit pixel on the page, failed after two attempts and
\* not for visual regression.
C12_Witness ==
  /\ ~Exists(baseline0)
  /\ shots["05a-before-click"] = File(Img(ImgW, ImgH, 1))
  /\ Count(log, "act") = 2
  /\ Test5Recorded
  /\ ~results[5].passed

\* compareWithBaseline has returned, in the run of calls on their own.
CompareReturned == pc = "cmp_returned"

CurrentShot == shots["05a-before-click"]

\* Both files are there and decode.
DecodablePair ==
  /\ Exists(CurrentShot)
  /\ Exists(baseline)
  /\ Content(CurrentShot).valid
  /\ Content(baseline).valid

DimensionsDiffer ==
  \/ Content(CurrentShot).width # Content(baseline).width
  \/ Content(CurrentShot).height # Content(baseline).height

\* C13: compareWithBaseline returns skipped = true if and only if no baseline
\* file exists (and then it returns, whatever is at currentPath); a result
\* with skipped = true has mismatchRatio = 0 and diffSaved = false.
C13_SkippedIffNoBaseline ==
  /\ CompareReturned
     => /\ comparison.skipped <=> ~Exists(baseline)
        /\ comparison.skipped
             => /\ comparison.mismatchRatio.num = 0
                /\ ~comparison.diffSaved
  /\ pc = "cmp_threw" => Exists(baseline)

\* Skipped with no baseline and an undecodable file at currentPath.
C13_Witness ==
  /\ CompareReturned
  /\ comparison.skipped
  /\ ~Exists(baseline)
  /\ CurrentShot = File(CorruptImg)

\* C14: a call on two decodable images whose width or height differs
\* returns mismatchRatio = 1, skipped = false, diffSaved = false and leaves
\* every file, the one at the diff path included, as it was.
C14_SizeMismatch ==
  [][(pc = "cmp_call" /\ DecodablePair /\ DimensionsDiffer)
     => /\ pc' = "cmp_returned"
        /\ comparison'.done
        /\ comparison'.mismatchRatio.num = comparison'.mismatchRatio.den
        /\ ~comparison'.skipped
        /\ ~comparison'.diffSaved
        /\ shots' = shots
        /\ baseline' = baseline]_vars

\* A size mismatch was reported and the file at the diff path is the old one.
C14_Witness ==
  /\ CompareReturned
  /\ DecodablePair
  /\ DimensionsDiffer
  /\ comparison.mismatchRatio.num = 1
  /\ comparison.mismatchRatio.den = 1
  /\ shots["05a-diff"] = OldDiff

\* The pixels in which the two images of the call differ.
DifferingPixels ==
  {i \in 1..(Content(CurrentShot).width * Content(CurrentShot).height) :
     Content(CurrentShot).data[i] # Content(baseline).data[i]}

\* C15: a call on two decodable images of equal width and height returns
\* mismatchRatio = differingPixels / (width * height), a function of the two
\* images that lies in [0, 1], with skipped = false and diffSaved = true and
\* the diff file written; identical images give mismatchRatio = 0.
C15_EqualSizeRatio ==
  (CompareReturned /\ DecodablePair /\ ~DimensionsDiffer)
  => /\ comparison.mismatchRatio.num = Cardinality(DifferingPixels)
     /\ comparison.mismatchRatio.den
          = Content(CurrentShot).width * Content(CurrentShot).height
     /\ comparison.mismatchRatio.den > 0
     /\ 0 <= comparison.mismatchRatio.num
     /\ comparison.mismatchRatio.num <= comparison.mismatchRatio.den
     /\ ~comparison.skipped
     /\ comparison.diffSaved
     /\ Exists(shots["05a-diff"])
     /\ Content(shots["05a-diff"]).width = Content(CurrentShot).width
     /\ Content(shots["05a-diff"]).height = Content(CurrentShot).height
     /\ CurrentShot = baseline => comparison.mismatchRatio.num = 0

\* Identical images compared, on the second call: ratio 0, the diff written.
C15_Witness ==
  /\ CompareReturned
  /\ Len(log) = 2
  /\ DecodablePair
  /\ CurrentShot = baseline
  /\ comparison.mismatchRatio.num = 0
  /\ comparison.diffSaved
  /\ shots["05a-diff"] # OldDiff

\* An error has been thrown in the try block of main.
ErrorThrown == pc = "catch" \/ crashed

\* C16: once an error thrown by a step has been caught, the crash screenshot
\* has been attempted exactly once, the file error-crash.png is there only if
\* the attempt worked, the run goes on to teardown, and process.exitCode is 1
\* from then to the end of the run, whatever results were recorded.
C16_CrashMarksRunFailed ==
  /\ pc = "catch" => ~crashed /\ ~Has("crashShot")
  /\ crashed
     => /\ exitCode = 1
        /\ pc \in {"teardown", "done"}
        /\ Count(log, "crashShot") = 1
        /\ Exists(shots["error-crash"])
             <=> \E i \in 1..Len(log) : log[i] = Event("crashShot", 1)
  /\ (pc = "done" /\ ~crashed /\ \A i \in 1..Len(results) : results[i].passed)
     => exitCode = 0

\* The run is over with exit code 1 although all five results are passed
\* (saveBaseline threw), and the crash screenshot failed too.
C16_Witness ==
  /\ pc = "done"
  /\ crashed
  /\ exitCode = 1
  /\ Test5Recorded
  /\ \A i \in 1..Len(results) : results[i].passed
  /\ \E i \in 1..Len(log) : log[i] = Event("crashShot", 0)
  /\ ~Exists(shots["error-crash"])

\* C17: from the moment setupTestEnv has returned (the browser is open, the
\* recorder is capturing), whether the steps pass, fail or throw, the run
\* reaches its end with the recorder stopped and the browser closed.
C17_TeardownAlwaysExecutes ==
  (pc = "test1" /\ recording /\ browserOpen)
    ~> (pc = "done" /\ ~recording /\ ~browserOpen /\ Has("stop")
          /\ Has("closeBrowser"))

\* Teardown has run after a step threw.
C17_Witness ==
  /\ pc = "done"
  /\ crashed
  /\ Len(results) < 5
  /\ ~recording
  /\ ~browserOpen
  /\ Has("stop")
  /\ Has("closeBrowser")

\* The run started with a baseline file that does not decode, and the
\* comparison of Test 5 has been called.
ComparedUndecodableBaseline ==
  /\ Exists(baseline0)
  /\ ~Content(baseline0).valid
  /\ Has("shot05a")
  /\ pc # "t5_check"

\* C18: when an image of the Test 5 comparison cannot be decoded, the error
\* goes to the catch block: no comparison result, no Test 5 result, act() is
\* never invoked, no page is closed, the cache is not cleared, the page is not
\* reloaded, the baseline is not written, and the run ends with exit code 1.
C18_DecodeFailureIsFatal ==
  ComparedUndecodableBaseline
  => /\ ErrorThrown
     /\ ~comparison.done
     /\ Len(results) = 4
     /\ ~Has("act")
     /\ ~Has("close")
     /\ ~Has("rm")
     /\ ~Has("goto")
     /\ ~Has("saveBaseline")
     /\ baseline = baseline0
     /\ pc \in {"catch", "teardown", "done"}
     /\ pc \in {"teardown", "done"} => exitCode = 1

C18_Witness ==
  /\ pc = "done"
  /\ baseline0 = File(CorruptImg)
  /\ baseline = baseline0
  /\ crashed
  /\ exitCode = 1
  /\ Len(results) = 4
  /\ \A i \in 1..4 : results[i].passed

\* C19: a screenshot call of the background capture loop and a screenshot
\* call of injectFrames are never in flight on the page at the same time.
C19_NoConcurrentScreenshots ==
  ~(capPc = "shooting" /\ injPc = "shooting")

\* The page that is last in the page list of the final attempt.
FinalLastPage == attempt.allPages[Len(attempt.allPages)]

\* shot05b of page p is in the log before the push of the Test 5 result.
NewTabShotBeforePush(p) ==
  \E i \in 1..Len(log), j \in 1..Len(log) :
    /\ i < j
    /\ log[i] = Event("shot05b", p)
    /\ log[j].op = "push"

\* C20: when the Test 5 result is about to be appended or has been appended
\* after the attempts, and the last page of the final attempt's page list is
\* not the original page, the screenshot 05b-new-tab of that page has been
\* captured already, before the result, whether the attempt succeeded or not;
\* when the last page is the original page no such screenshot is taken.
C20_NewTabShotBeforeResult ==
  /\ (pc = "record" /\ FinalLastPage # OrigPage)
     => /\ log[Len(log)] = Event("shot05b", FinalLastPage)
        /\ shots["05b-new-tab"] = Shown(FinalLastPage, url[FinalLastPage])
  /\ (Test5Recorded /\ results[5].screenshot = NewTabArtifact)
     => IF FinalLastPage # OrigPage
        THEN /\ NewTabShotBeforePush(FinalLastPage)
             /\ Count(log, "shot05b") = 1
             /\ shots["05b-new-tab"] = Shown(FinalLastPage, url[FinalLastPage])
        ELSE /\ ~Has("shot05b")
             /\ ~Exists(shots["05b-new-tab"])

\* Test 5 failed after self-heal and the wrong page that opened was captured.
C20_Witness ==
  /\ Test5Recorded
  /\ ~results[5].passed
  /\ Count(log, "act") = 2
  /\ FinalLastPage # OrigPage
  /\ shots["05b-new-tab"] = Shown(FinalLastPage, "slideshare")


\* C21: whenever Test 5 is recorded as passed, its artifact path names a
\* screenshot captured in this run (setupTestEnv emptied screenshots/) that
\* shows a page whose URL contains "github.com".
C21_PassArtifactShowsResultPage ==
  (Test5Recorded /\ results[5].passed)
  => /\ results[5].screenshot = NewTabArtifact
     /\ Exists(shots["05b-new-tab"])
     /\ IsGithub(Content(shots["05b-new-tab"]).url)


\* Self-heal is past its close loop.
CloseLoopDone == pc \in {"heal_cache", "heal_goto", "heal_wait"} \/ AtRetry

\* The close attempts made so far, in order.
CloseEvents ==
  LET IsClose(e) == e.op = "close"
  IN SelectSeq(log, IsClose)

\* The close loop has a page left to close: the page.
PageToClose == OwedCloses[closeIdx].arg

\* C22: during self-heal the original page stays open and no close is
\* attempted on it; once the close loop is over a close has been attempted on
\* every other page of the failed attempt's page list, in order, whether the
\* closes worked or threw; a close attempt, thrown or not, is followed by the
\* next turn of the loop; and the retry is reached with the cache cleared and
\* the original page reloaded although closes threw.
C22_CloseFailuresIgnored ==
  /\ []((pc \in {"heal_close", "heal_cache", "heal_goto", "heal_wait"} \/ AtRetry)
        => /\ pages[1] = OrigPage
           /\ \A i \in 1..Len(log) : log[i] # Event("close", OrigPage)
           /\ CloseLoopDone => CloseEvents = OwedCloses
           /\ AtRetry
                => /\ cache.entries = {}
                   /\ url[OrigPage] = "cfe"
                   /\ log[Len(log)] = Event("networkidle", OrigPage)
                   /\ log[Len(log) - 1] = Event("goto", OrigPage))
  /\ [][(pc = "heal_close" /\ closeIdx <= Len(OwedCloses))
        => /\ pc' = "heal_close"
           /\ closeIdx' = closeIdx + 1
           /\ log' = Append(log, Event("close", PageToClose))
           /\ pages' \in {pages, Without(pages, PageToClose)}
           /\ cache' = cache]_vars

\* The retry is reached after the close of the first extra page threw (the
\* page is still open) and the second extra page was closed.
C22_Witness ==
  /\ AtRetry
  /\ attempt.allPages = <<0, 1, 2>>
  /\ pages = <<0, 1>>
  /\ CloseEvents = <<Event("close", 1), Event("close", 2)>>
  /\ Has("rm")


\* The step names of the five results, in the order main pushes them.
StepNames ==
  <<"Test 1: Page navigation", "Test 2: Profile extraction",
    "Test 3: Book extraction", "Test 4: Link observation", Test5Step>>

\* The process is running: it has not ended.
RunInProgress == pc \notin {"done", "died"}

\* C23: at every point of a run the results are the steps Test 1, 2, ... in
\* order, at most five; within a run a step of main leaves results as it is
\* or appends one entry, the earlier entries unchanged; the Test 5 result is
\* pushed at most once, and exactly once, as the fifth entry, in a run whose
\* try block completes, with or without self-heal.
C23_ResultsAppendOnly ==
  /\ [](/\ Len(results) <= 5
        /\ \A i \in 1..Len(results) : results[i].step = StepNames[i]
        /\ Count(log, "push") <= 1
        /\ Has("push") <=> Test5Recorded
        /\ TryCompleted => Test5Recorded /\ Count(log, "push") = 1)
  /\ [][RunInProgress
        => \/ results' = results
           \/ /\ Len(results') = Len(results) + 1
              /\ SubSeq(results', 1, Len(results)) = results]_vars

\* A run through self-heal has completed with its single Test 5 entry.
C23_Witness ==
  /\ pc = "done"
  /\ ~crashed
  /\ Count(log, "act") = 2
  /\ Count(log, "push") = 1
  /\ Len(results) = 5
  /\ results[5].step = Test5Step
  /\ ~results[3].passed


\* C24: a call saveBaseline(p, name, dir) with a file at p returns; after it
\* dir exists, dir/name.png holds the content of p whatever it held before,
\* the value returned is the path dir/name.png, and the file under every other
\* checkpoint name is the one that was there before the call.
C24_SaveBaselineOverwrites ==
  /\ [](savePc = "returned"
        => /\ saveDir.exists
           /\ saveDir.files[saveArg.name] = saveArg.src
           /\ saveRet = [dir |-> BASELINES_DIR, name |-> saveArg.name])
  /\ [][(savePc = "call" /\ Exists(saveArg.src))
        => /\ savePc' = "returned"
           /\ saveDir'.exists
           /\ saveDir'.files[saveArg.name] = saveArg.src
           /\ saveRet' = [dir |-> BASELINES_DIR, name |-> saveArg.name]
           /\ \A n \in BaselineNames \ {saveArg.name} :
                saveDir'.files[n] = saveDir.files[n]]_vars

\* After two calls the baseline of the checkpoint is the file of the second
\* call and the baseline of the other checkpoint is still there.
C24_Witness ==
  /\ savePc = "returned"
  /\ saveCalls = 2
  /\ saveArg = [src |-> File(Img(ImgW, ImgH, 1)), name |-> "05a-before-click"]
  /\ saveDir.files["05a-before-click"] = File(Img(ImgW, ImgH, 1))
  /\ saveDir.files["01-page-loaded"] = File(CorruptImg)


\* The times, in ms after act() returned, at which the loop tests the page
\* count: every interval while the deadline has not passed.
PollTimes ==
  {t \in {k * POLL_INTERVAL_MS : k \in 0..(POLL_DEADLINE_MS \div POLL_INTERVAL_MS)} :
     t < POLL_DEADLINE_MS}

\* The time of the first test of the deadline that finds it passed.
DeadlineSeenAt ==
  CHOOSE t \in {k * POLL_INTERVAL_MS :
                  k \in 0..(POLL_DEADLINE_MS \div POLL_INTERVAL_MS + 1)} :
    t >= POLL_DEADLINE_MS /\ t - POLL_INTERVAL_MS < POLL_DEADLINE_MS

\* C25: the poll of an attempt ends and the attempt goes on to the settle
\* delay and then to the URL check.  When a new page arrived by a test made
\* before the deadline the loop left at the first such test, with more pages
\* open than before the action; otherwise it left at the first test of the
\* deadline that finds it passed, less than one interval after it.  The page
\* count is tested at most 17 times.
C25_PollBounded ==
  /\ [](pc = "settle"
        => /\ poll.exitAt \in PollTimes \cup {DeadlineSeenAt}
           /\ poll.polls <= Cardinality(PollTimes)
           /\ poll.sawNew
                <=> /\ poll.arrival # Never
                    /\ \E t \in PollTimes : poll.arrival <= t
           /\ poll.sawNew
                => /\ poll.arrival <= poll.exitAt
                   /\ \A t \in PollTimes : t < poll.exitAt => poll.arrival > t
                   /\ poll.exitAt < POLL_DEADLINE_MS
                   /\ Len(pages) > pagesBefore
           /\ ~poll.sawNew
                => /\ poll.exitAt = DeadlineSeenAt
                   /\ poll.polls = Cardinality(PollTimes))
  /\ [][(pc = "poll" => pc' = "settle")
        /\ (pc = "settle"
              => /\ pc' \in {"heal_close", "newtab"}
                 /\ log' = Append(log, Event("verify",
                                              IF attempt'.success THEN 1 ELSE 0))
                 /\ attempt'.allPages = pages')]_vars

\* A poll left at its second test, the new page having arrived at 250 ms.
C25_Witness ==
  /\ pc = "settle"
  /\ poll.arrival = 250
  /\ poll.sawNew
  /\ poll.exitAt = POLL_INTERVAL_MS
  /\ poll.polls = 2
  /\ Len(pages) = pagesBefore + 1


\* C26: a call of stop() resolves, every screenshot call and timer
\* completing; when it has resolved capture() has ended, so no background
\* capture is started afterwards; the number it returns is the number of
\* captures, background and injected, that had completed when it returned;
\* a capture that throws leaves the count as it was.
C26_StopResolvesWithCount ==
  /\ (stopPc = "waiting") ~> (stopPc = "resolved")
  /\ [](/\ frameIndex = Len(frameLog)
        /\ stopPc = "resolved" => capPc = "ended" /\ stopped
        /\ stopPc # "resolved" => stopResult = NotReturned)
  /\ [][/\ (stopPc = "waiting" /\ stopPc' = "resolved")
             => stopResult' = Len(frameLog)
        /\ (stopPc = "resolved")
             => /\ stopResult' = stopResult
                /\ capPc' = "ended"
        /\ (frameIndex' # frameIndex)
             => /\ frameIndex' = frameIndex + 1
                /\ Len(frameLog') = Len(frameLog) + 1]_vars

\* stop() has returned 1: the injected capture; the background capture that
\* was in flight threw and is not counted.
C26_Witness ==
  /\ stopPc = "resolved"
  /\ stopResult = 1
  /\ frameLog = <<Frame("inject", 0)>>
  /\ capPc = "ended"


\* What teardownTestEnv has done so far, the crash screenshot left out.
TeardownLog == SubSeq(log, 2, Len(log))

\* The steps of a teardown, in order, with the encoding or without.
TeardownOrder(encoded) ==
  <<Event("report", 0), Event("stop", 0), Event("closeBrowser", 0)>>
    \o (IF encoded THEN <<Event("encode", frames)>> ELSE <<>>)

SomeStepFailed == \E i \in 1..Len(results) : ~results[i].passed

\* Where main goes once it has pushed its n-th result, for n from 2 to 4.
AfterResult == [n \in 2..4 |-> <<"test3", "test4", "t5_shot">>[n - 1]]

\* C28: when a run that completed setup has ended, process.exitCode is 1 if
\* a recorded result has passed = false or an error was caught, and 0
\* otherwise; it is never set back to 0 within a run.  Pushing the result of
\* Test 2, 3 or 4, passed or failed, is followed by the next step, so a run
\* whose try block completes has recorded Test 5 whatever the verdicts of
\* Tests 2 to 4.
C28_ExitCodeIffFailure ==
  /\ [](/\ exitCode \in {0, 1}
        /\ pc = "done" => (exitCode = 1 <=> (SomeStepFailed \/ crashed))
        /\ TryCompleted => Test5Recorded)
  /\ [][/\ (RunInProgress /\ exitCode = 1) => exitCode' = 1
        /\ (Len(results') = Len(results) + 1 /\ Len(results') \in 2..4)
             => pc' = AfterResult[Len(results')]]_vars

\* A run ended with exit code 1 for a failed Test 3 alone; Test 5 was executed
\* after it and passed.
C28_Witness ==
  /\ pc = "done"
  /\ ~crashed
  /\ exitCode = 1
  /\ Test5Recorded
  /\ ~results[3].passed
  /\ results[2].passed
  /\ results[4].passed
  /\ results[5].passed


\* C29: when a call of injectFrames returns, after its last capture or after
\* one of its captures threw, injecting is false, no capture of the call is
\* left to make, and frameIndex has advanced since the call by exactly the
\* number of injected captures that completed.
C29_InjectReturnsClean ==
  [][(injPc = "shooting" /\ injPc' = "idle")
     => /\ ~injecting'
        /\ injLeft' = 0
        /\ frameIndex' - injBase
             = Cardinality({i \in (injBase + 1)..Len(frameLog') :
                              frameLog'[i].by = "inject"})]_vars


\* The numbers NNNNN of the frame files written.
FramesWritten == {frameLog[i].index : i \in 1..Len(frameLog)}

\* C30: no two captures write the same frame-NNNNN.png, and when stop()
\* returns N the frame files written are exactly frame-00000 to frame-(N-1).
C30_FrameNumbering ==
  /\ [](\A i \in 1..Len(frameLog), j \in 1..Len(frameLog) :
          i # j => frameLog[i].index # frameLog[j].index)
  /\ [][(stopPc = "waiting" /\ stopPc' = "resolved")
        => FramesWritten = 0..(stopResult' - 1)]_vars


\* ---------------------------------------------------------------- C31
\* The script has been started again after a run.
Restarted == pc \in {"done", "died"} /\ pc' = "setup"

\* C31: setupTestEnv empties screenshots/ and recordings/ and leaves the
\* baseline file and the action cache as they were; a restart of the script
\* leaves them too, so the baseline that VisualCheck compares with is the one
\* the run before left.
C31_SetupClearsOnlyRunOutput ==
  /\ [][pc = "setup" =>
          /\ shots' = [n \in ShotNames |-> NoFile]
          /\ recDir' = "empty"
          /\ baseline' = baseline
          /\ cache' = cache]_vars
  /\ [][Restarted =>
          baseline' = baseline /\ cache' = cache /\ baseline0' = baseline]_vars
  /\ [](pc = "t5_check" => baseline = baseline0)

\* A run passed Test 5 and saved its screenshot as the baseline, recorded a
\* video, and the script was started again: its setup is about to run on the
\* screenshots, the recording, the baseline and the cache of that run.
C31_Witness ==
  /\ pc = "setup"
  /\ shots["05a-before-click"] # NoFile
  /\ baseline = shots["05a-before-click"]
  /\ recDir = "output"
  /\ cache.exists
  /\ cache.entries # {}


\* ---------------------------------------------------------------- C32
\* The pre-action screenshot of this run is the baseline on disk.
ShotIsBaseline ==
  /\ Exists(baseline)
  /\ shots["05a-before-click"] = baseline

\* C32: a run that completes with Test 5 passed leaves its pre-action
\* screenshot as the baseline, and a run that saves nothing leaves the baseline
\* it started with; the next run starts with what was left; and a run whose
\* pre-action screenshot is identical to the baseline gets a comparison that
\* is not skipped and has mismatchRatio 0, and goes on to the action.
C32_SaveCompareRoundTrip ==
  /\ []((TryCompleted /\ Test5Recorded /\ results[5].passed)
          => Exists(baseline) /\ baseline = shots["05a-before-click"])
  /\ [](~Has("saveBaseline") => baseline = baseline0)
  /\ [][Restarted => baseline0' = baseline]_vars
  /\ [][(pc = "t5_check" /\ ShotIsBaseline)
          => /\ pc' = "act"
             /\ comparison'.done
             /\ ~comparison'.skipped
             /\ comparison'.mismatchRatio.num = 0]_vars

\* The run found, as its baseline, a file identical to the pre-action
\* screenshot it then captured, compared the two and is at the action.
C32_Witness ==
  /\ pc = "act"
  /\ attemptNo = 0
  /\ Exists(baseline0)
  /\ shots["05a-before-click"] = baseline0
  /\ comparison.done
  /\ ~comparison.skipped
  /\ comparison.mismatchRatio.num = 0


\* ---------------------------------------------------------------- C33
\* What only self-heal does: closing a page, removing and making the cache
\* directory, navigating the original page again and waiting for it.
HealOps == {"close", "rm", "mkdir", "goto", "networkidle"}

HealEvents == {i \in 1..Len(log) : log[i].op \in HealOps}

\* The first attempt's outcome verification passed.
FirstAttemptSucceeded == Has("verify") /\ log[FirstVerify].arg = 1

\* C33: a page is closed, the cache is cleared and the original page is
\* navigated again only after an outcome verification that failed; a run
\* whose first attempt succeeded, and a run that the visual check aborted, has
\* none of these effects.
C33_HealOnlyAfterFailedVerify ==
  /\ \A i \in HealEvents :
       /\ Has("verify")
       /\ FirstVerify < i
       /\ log[FirstVerify].arg = 0
  /\ FirstAttemptSucceeded => HealEvents = {} /\ Count(log, "act") = 1
  /\ AbortedForVisualRegression => HealEvents = {} /\ ~Has("act")

\* A run is over whose first attempt opened a tab, passed its verification
\* and was recorded as a pass.
C33_Witness ==
  /\ pc = "done"
  /\ FirstAttemptSucceeded
  /\ Len(attempt.allPages) > 1
  /\ Test5Recorded
  /\ results[5].passed
  /\ Has("closeBrowser")


\* ---------------------------------------------------------------- C34
\* C34: on every script of collaborator outcomes (the original page is in
\* pages() in all of them), Test 5 of e2e-cfe.ts and Test 5 of part_000 push
\* the same verdict, call act() the same number of times, and agree on
\* clearing the cache and on saving the baseline.
C34_ScriptsEquivalent ==
  (mono.ran /\ refa.ran)
  => /\ mono.passed = refa.passed
     /\ mono.acts = refa.acts
     /\ mono.cacheCleared = refa.cacheCleared
     /\ mono.baselineSaved = refa.baselineSaved


\* ---------------------------------------------------------------- C35
\* C35: whatever calls of highlightElement, highlightElements and
\* removeHighlights were made on a page, the document has at most one element
\* with the container id and every element the helpers appended is inside it;
\* right after removeHighlights there is no container and no overlay;
\* removeHighlights on a document without a container leaves the document as
\* it is; and so does highlightElement with a selector that resolves to no
\* element.
C35_HighlightContainer ==
  /\ [](dom.containers <= 1)
  /\ [](dom.overlays > 0 => dom.containers = 1)
  /\ [](hlCall.op = "removeHighlights"
          => dom.containers = 0 /\ dom.overlays = 0)
  /\ [][(hlCall'.op = "removeHighlights" /\ dom.containers = 0)
          => dom' = dom]_vars
  /\ [][(hlCall'.op = "highlightElement" /\ hlCall'.resolves # "found")
          => dom' = dom]_vars

\* highlightElements and then highlightElement have filled one container, the
\* last call's selector resolved to no element, and the page is scrolled.
C35_Witness ==
  /\ hlCall.op = "highlightElement"
  /\ hlCall.resolves = "none"
  /\ dom.containers = 1
  /\ dom.overlays = MaxOverlays
  /\ dom.scrolledTo = "element"


\* ---------------------------------------------------------------- C36
\* The page the call is to capture: targetPage, or the helper's page when no
\* targetPage is given.
ShotTarget ==
  IF shotCall.targetPage = NotGiven THEN shotCall.page ELSE shotCall.targetPage

ShotPath == PathJoin(shotCall.dir, shotCall.name)

\* C36: a call of the screenshot helper first makes a full-page capture of
\* the target page to dir/name.png; it makes a second capture exactly when
\* the first throws, of the same page to the same path without fullPage, and
\* never a third; it throws exactly when both captures throw; and when it
\* does not throw it returns dir/name.png.
C36_FallbackExactlyOnce ==
  shotOut.done
  => /\ Len(shotOut.captures) \in 1..2
     /\ shotOut.captures[1] =
          [page |-> ShotTarget, path |-> ShotPath, fullPage |-> TRUE]
     /\ Len(shotOut.captures) = 2 <=> ~shotCall.fullOk
     /\ Len(shotOut.captures) = 2
        => shotOut.captures[2] =
             [page |-> ShotTarget, path |-> ShotPath, fullPage |-> FALSE]
     /\ shotOut.threw <=> (~shotCall.fullOk /\ ~shotCall.fallbackOk)
     /\ ~shotOut.threw => shotOut.ret = ShotPath /\ shotOut.written = ShotPath
     /\ shotOut.threw => shotOut.ret = NoPath

\* The helper was called without a targetPage, the full-page capture threw
\* and the viewport capture of the helper's own page went through.
C36_Witness ==
  /\ shotOut.done
  /\ shotCall.targetPage = NotGiven
  /\ ~shotCall.fullOk
  /\ shotCall.fallbackOk
  /\ Len(shotOut.captures) = 2
  /\ shotOut.captures[2].page = shotCall.page
  /\ shotOut.ret = PathJoin(shotCall.dir, shotCall.name)

====
